---- MODULE Spec2Model ----
(***************************************************************************)
(* A model of clients/mesh_network.py: one MeshNetwork node (its peer      *)
(* table, its receive loop, its keepalive/reaper loop with the STUN        *)
(* request that shares the socket, and the public API calls send,          *)
(* broadcast and connect_to_peer) running on one asyncio event loop.       *)
(* Every action is one atomic stretch of a coroutine, from one await to    *)
(* the next.  The rest of the world (peers that hold the secret, strangers *)
(* that do not, the STUN server, the socket's errors, the application's    *)
(* callbacks) is the environment: its inputs are drawn from small sets.    *)
(***************************************************************************)
EXTENDS Integers, Sequences, FiniteSets, Bags, TLC

(***************************************************************************)
(* Bounds of the model.                                                    *)
(***************************************************************************)
\* the clock advances in steps of TimeStep seconds, up to MaxTime
TimeStep == 5
MaxTime == 70
\* the specification of the address change watches the node for this long
NatTime == 20
\* datagrams the socket hands to the node in one behaviour
MaxRecv == 3
\* connect_to_peer tasks running at once
MaxPunch == 2
\* calls the application makes into the API in one behaviour
MaxCalls == 1
\* the engine specification watches the node for this many seconds after start
EngineTime == 5
\* connect_to_peer tasks one node of the network runs, one after another
MaxTasks == 6
\* datagrams on their way when a task or a broadcast sends one more: delivery
\* takes far less than the 0.5 s between the hellos of a task
MaxFlight == 1
\* datagrams that the waits for a STUN response of one node take from its
\* socket while its peers punch (2.5 s, against one wait in 10 s)
MaxStolen == 1

(***************************************************************************)
(* Program constants.                                                      *)
(***************************************************************************)
KEEPALIVE_PERIOD == 10
PEER_TIMEOUT == 60
STUN_TIMEOUT == 5
HOLE_PUNCH_COUNT == 5

(***************************************************************************)
(* Values.                                                                 *)
(***************************************************************************)
Missing == "Missing"           \* a key that a decoded message does not have
NoAddr == [ip |-> "None", port |-> 0]

\* the node under study
network_id == "net"
network_secret == "s"
node_id == "n0"
virtual_ip == "v0"

\* what the rest of the world is made of
OtherSecret == "other"
PeerIds == {"n1", "n2"}
SelfAddr == [ip |-> "ip0", port |-> 41000]
Addr1 == [ip |-> "ip1", port |-> 41001]
Addr2 == [ip |-> "ip2", port |-> 41002]
STUN_SERVER == [ip |-> "84.247.170.241", port |-> 3478]

(***************************************************************************)
(* The crypto envelope.  A Fernet token is the plaintext under a key; the  *)
(* key is derived from the secret alone (fixed salt, fixed iterations).    *)
(* Bytes that are no token at all carry RawBytes in place of a key.        *)
(***************************************************************************)
CreateCipher(secret) == <<"pbkdf2", "p2p_mesh_network", secret>>

RawBytes == <<"raw", "raw", "raw">>

cipher == CreateCipher(network_secret)

Encrypt(c, plaintext) == [key |-> c, body |-> plaintext]

(***************************************************************************)
(* The wire codec: a decoded message is a dict; a key it lacks reads as    *)
(* Missing (msg.get) or raises KeyError (msg[...]).                        *)
(***************************************************************************)
Msg(type, nid, vip, net, prs, from, dat) ==
    [type |-> type, node_id |-> nid, virtual_ip |-> vip, network_id |-> net,
     peers |-> prs, from_ip |-> from, data |-> dat, mapped |-> NoAddr]

\* what decrypt raises on bytes that are no token of this key
InvalidToken ==
    Msg("InvalidToken", Missing, Missing, Missing, <<>>, Missing, Missing)

\* a decrypt that does not check the key
DecryptAnyKey(c, data) == IF data.key # RawBytes THEN data.body ELSE InvalidToken

Decrypt(c, data) == IF data.key = c THEN data.body ELSE InvalidToken

\* plaintext that is not JSON: json.loads raises
NotJson == Msg("notjson", Missing, Missing, Missing, <<>>, Missing, Missing)

\* bytes that are no token: random bytes, or a STUN message carrying an
\* XOR-MAPPED-ADDRESS (txid: whether it answers the outstanding request)
Junk == Msg("junk", Missing, Missing, Missing, <<>>, Missing, Missing)

StunResponse(txid, addr) ==
    [Msg("stun", Missing, Missing, Missing, <<>>, txid, Missing)
        EXCEPT !.mapped = addr]

(***************************************************************************)
(* The peer table: a Python dict, that is, records in insertion order,     *)
(* at most one per key by construction of DictSet.                         *)
(***************************************************************************)
\* a record made without connected=True: the dataclass's default
PeerByDefault(peer_id, vip, addr, last_seen) ==
    [peer_id |-> peer_id, virtual_ip |-> vip, external_ip |-> addr.ip,
     external_port |-> addr.port, last_seen |-> last_seen, connected |-> FALSE]

Peer(peer_id, vip, addr, last_seen) ==
    [peer_id |-> peer_id, virtual_ip |-> vip, external_ip |-> addr.ip,
     external_port |-> addr.port, last_seen |-> last_seen, connected |-> TRUE]

Keys(t) == {t[i].peer_id : i \in 1..Len(t)}

IndexOf(t, k) == CHOOSE i \in 1..Len(t) : t[i].peer_id = k

\* self.peers[k] (the first entry stored under k)
DictGet(t, k) == t[IndexOf(t, k)]

\* self.peers[k] = rec: replaces in place, or appends
DictSet(t, k, rec) ==
    IF k \in Keys(t) THEN [t EXCEPT ![IndexOf(t, k)] = rec] ELSE Append(t, rec)

\* del self.peers[k]
DictDel(t, k) ==
    LET i == IndexOf(t, k)
    IN  SubSeq(t, 1, i - 1) \o SubSeq(t, i + 1, Len(t))

\* a peers list that leaves out the record stored last
AsDictsButLast(t) == IF t = <<>> THEN t ELSE SubSeq(t, 1, Len(t) - 1)

\* [asdict(p) for p in self.peers.values()]
AsDicts(t) == t

AddrOf(p) == [ip |-> p.external_ip, port |-> p.external_port]

(***************************************************************************)
(* What the socket can hand to the node.  A datagram is its source address *)
(* and its bytes (the key it is a token of, and the plaintext).            *)
(***************************************************************************)
Datagram(src, key, body) == [src |-> src, key |-> key, body |-> body]

Hello(nid, vip) == Msg("hello", nid, vip, network_id, <<>>, Missing, Missing)

HelloAck(nid, vip, prs) == Msg("hello_ack", nid, vip, Missing, prs, Missing, Missing)

Keepalive(nid, vip) == Msg("keepalive", nid, vip, Missing, <<>>, Missing, Missing)

Data(from, dat) == Msg("data", Missing, Missing, Missing, <<>>, from, dat)

Discover(nid, vip) == Msg("discover", nid, vip, Missing, <<>>, Missing, Missing)

DiscoverResponse(nid, vip, prs) ==
    Msg("discover_response", nid, vip, Missing, prs, Missing, Missing)

\* who says hello: (node_id, virtual_ip, source address).  n1 is seen from
\* two addresses (its NAT rebinds), n2 claims either of two virtual IPs (one
\* collides with n1's), and the node's own hello comes back from its own
\* address.
Senders ==
    { <<"n1", "v1", Addr1>>, <<"n1", "v1", Addr2>>,
      <<"n2", "v2", Addr2>>, <<"n2", "v1", Addr2>>,
      <<node_id, virtual_ip, SelfAddr>> }

\* peers[] lists of a hello_ack: entries are asdict(Peer); one lacks peer_id
G(nid, vip, addr) == Peer(nid, vip, addr, 0)

GossipLists ==
    { <<>>,
      <<G(node_id, virtual_ip, SelfAddr), G("n1", "v1", Addr1), G("n2", "v2", Addr2)>>,
      <<G("n2", "v2", Addr2), G(Missing, "v1", Addr1), G("n1", "v1", Addr1)>> }

Datagrams ==
    {Datagram(s[3], cipher, Hello(s[1], s[2])) : s \in Senders}
    \cup {Datagram(Addr1, cipher, Hello("n1", Missing))}
    \cup {Datagram(Addr1, CreateCipher(OtherSecret), Hello("n1", "v1"))}
    \cup {Datagram(Addr2, cipher, [Hello("n2", "v2") EXCEPT !.network_id = "lan"])}
    \cup {Datagram(s[3], cipher, HelloAck(s[1], s[2], g)) :
            s \in Senders, g \in GossipLists}
    \cup {Datagram(s[3], cipher, Keepalive(s[1], s[2])) : s \in Senders}
    \cup {Datagram(Addr1, cipher, Keepalive(Missing, "v1"))}
    \cup {Datagram(Addr1, cipher, Data("v1", "x")),
          Datagram(Addr2, cipher, Data(Missing, Missing))}
    \cup {Datagram(Addr2, cipher, Discover("n2", "v2"))}
    \cup {Datagram(Addr1, cipher,
                   DiscoverResponse("n1", "v1", <<G("n2", "v2", Addr2)>>))}
    \cup {Datagram(Addr1, cipher, Msg("bogus", "n1", "v1", Missing, <<>>, Missing, Missing))}
    \cup {Datagram(Addr1, cipher, NotJson)}
    \cup {Datagram(Addr2, RawBytes, Junk)}
    \cup {Datagram(STUN_SERVER, RawBytes, StunResponse("match", SelfAddr)),
          Datagram(Addr2, RawBytes, StunResponse("other", Addr2))}

(***************************************************************************)
(* Several nodes that share network_id and secret: the node node_id and    *)
(* its peers, each with the address the others see it at.                  *)
(***************************************************************************)
NetNodes == {node_id} \cup PeerIds

Ident(n) ==
    CASE n = node_id -> [virtual_ip |-> virtual_ip, addr |-> SelfAddr]
      [] n = "n1" -> [virtual_ip |-> "v1", addr |-> Addr1]
      [] n = "n2" -> [virtual_ip |-> "v2", addr |-> Addr2]

NodeAt(addr) == CHOOSE n \in NetNodes : Ident(n).addr = addr

(***************************************************************************)
(* State.                                                                  *)
(***************************************************************************)
VARIABLES
    now,            \* time.time(), in seconds
    peers,          \* self.peers
    external_ip,    \* self.external_ip
    external_port,  \* self.external_port
    rx_pc,          \* where _receive_loop is
    rxCtx,          \* the locals of the handler suspended in its await
    rxLog,          \* what the handling of the last datagram did
    nRecv,          \* datagrams received so far
    punch,          \* the connect_to_peer tasks created by create_task
    app_pc,         \* where the application's call into the API is
    appCtx,         \* the locals of that call
    appLog,         \* what the last API call did
    nCalls,         \* API calls made so far
    ka_pc,          \* where start() and then _keepalive_loop are
    kaTimer,        \* when the sleep, or the wait for the STUN response, ends
    kaSnap,         \* what is left of list(self.peers.items())
    tables,         \* several nodes on one network: the peers of each
    flight,         \* the datagrams on their way, each with the node it is for
    tasks,          \* the connect_to_peer tasks of each node
    got,            \* the on_message invocations on each node
    stolen,         \* per node, datagrams its waits for a STUN response took
    calls,          \* the calls their applications have made
    bc,             \* the broadcast of the node node_id, and its dict iterator
    built,          \* MeshNetwork objects made by the constructor, by slot
    box,            \* a plaintext, its tokens, and what decrypt made of them
    parse,          \* the bytes a STUN wait received, and where the walk over
                    \* their attributes stands
    kaLog           \* what the last STUN request returned (stun: addr or
                    \* None), the callbacks the keepalive loop has fired, and the
                    \* keepalives it has sent, in its last turn

selfVars == <<external_ip, external_port>>

rxVars == <<rx_pc, rxCtx, rxLog, nRecv>>

appVars == <<app_pc, appCtx, appLog, nCalls>>

kaVars == <<ka_pc, kaTimer, kaSnap, kaLog>>

netVars == <<tables, flight, tasks, got, stolen, calls, bc>>

nodeVars == <<now, peers, selfVars, rxVars, punch, appVars, kaVars>>

pureVars == <<built, box, parse>>

vars == <<nodeVars, netVars, pureVars>>

NoCtx == [peer_id |-> Missing, addr |-> NoAddr, msg |-> Junk]

NoDatagram == Datagram(NoAddr, RawBytes, Junk)

\* status: none | handling | done | dropped (decrypt or decode raised) |
\*         raised (the handler raised) | cb_raised (the callback raised)
\* updates: how many times the handling wrote the peer table
\* sent: the datagrams it emitted; cb: the callbacks it fired;
\* spawned: the hole-punch tasks it created
\* known: whether the table held the key the datagram names, before it
Log(d, status, updates, sent, cb, spawned) ==
    [dg |-> d, status |-> status, updates |-> updates, sent |-> sent,
     cb |-> cb, spawned |-> spawned,
     known |-> d.body.node_id \in Keys(peers)]

\* how a turn of the receive loop can end in an exception
Failures == {"dropped", "raised", "cb_raised", "socket_error"}

\* the iterator of self.peers.values() and the address being sent to:
\* di_used is the dict's size when the iterator was made, di_pos the entries
\* it has passed, len the entries it still expects
NoIter == [di_used |-> 0, di_pos |-> 0, len |-> 0, addr |-> NoAddr, key |-> Missing]

\* result: none (in progress) | True | False | returned |
\*         raised (sendto raised) | RuntimeError (the dict iterator raised)
\* start: the peer table when the call began; sent: the datagrams it emitted;
\* keys: the key of the record each was sent for
Call(op, arg, start) ==
    [op |-> op, arg |-> arg, start |-> start, sent |-> <<>>, keys |-> <<>>,
     result |-> "none"]

\* the constructor has not run for a slot; nothing has been encrypted
Slots == {1, 2}

Unbuilt == [network_id |-> Missing]

NoBox == [stage |-> "none"]

\* no STUN response is being parsed
NoParse == [pc |-> "none"]

InitPure ==
    /\ built = [k \in Slots |-> Unbuilt]
    /\ box = NoBox
    /\ parse = NoParse

InitNode ==
    /\ InitPure
    /\ now = 0
    /\ peers = <<>>
    /\ external_ip = "None"
    /\ external_port = 0
    /\ rx_pc = "off"
    /\ rxCtx = NoCtx
    /\ rxLog = Log(NoDatagram, "none", 0, <<>>, <<>>, <<>>)
    /\ nRecv = 0
    /\ punch = <<>>
    /\ app_pc = "off"
    /\ appCtx = NoIter
    /\ appLog = Call("none", Missing, <<>>)
    /\ nCalls = 0
    /\ ka_pc = "off"
    /\ kaTimer = 0
    /\ kaSnap = <<>>
    /\ kaLog = [stun |-> "none", cb |-> <<>>, sent |-> <<>>]

\* nothing is on the network and no node has called anything
InitNet ==
    /\ flight = EmptyBag
    /\ tasks = [n \in NetNodes |-> <<>>]
    /\ got = [n \in NetNodes |-> <<>>]
    /\ stolen = [n \in NetNodes |-> 0]
    /\ calls = {}
    /\ bc = [pc |-> "none", it |-> NoIter, x |-> Missing]

Init ==
    /\ InitNode
    /\ InitNet
    /\ tables = [n \in NetNodes |-> <<>>]

(***************************************************************************)
(* The clock.                                                              *)
(***************************************************************************)
\* The clock's step is longer than anything the node awaits but recvfrom and
\* the keepalive loop's sleep: the loop wakes when its sleep is over, and
\* whatever else is awaited (a sendto, the STUN response within the socket's
\* timeout, the receive loop's sleep of 0.1 s) is over before the clock moves.
Tick(limit) ==
    /\ now + TimeStep <= limit
    /\ ka_pc \in {"off", "sleep", "dead"}
    /\ ka_pc = "sleep" => now + TimeStep <= kaTimer
    /\ rx_pc \in {"off", "recv"}
    /\ app_pc \in {"off", "idle"}
    /\ now' = now + TimeStep
    /\ UNCHANGED <<pureVars, netVars, peers, selfVars, rxVars, punch, appVars, kaVars>>

(***************************************************************************)
(* _receive_loop and _handle_packet.  Where an exception ends up: the      *)
(* handler's own is swallowed by _handle_packet's except (the loop goes    *)
(* back to recvfrom), recvfrom's by the loop's except (sleep 0.1, then     *)
(* recvfrom again).                                                        *)
(***************************************************************************)
AfterHandlerException == "recv"

\* a loop whose recvfrom is not in a try
SocketErrorEndsLoop == "dead"

AfterSocketError == "sleep"

\* a datagram emitted by _send_to: json.dumps, encrypt, sendto
Sent(msg, addr) == [to |-> addr, data |-> Encrypt(cipher, msg)]

\* a callback invocation
Fired(name, arg) == [name |-> name, arg |-> arg]

\* a receive loop that would hand each datagram to a task of its own and
\* go back to recvfrom at once
ReceivedByTask(d) ==
    /\ rx_pc \in {"recv", "hello_send", "disc_send"}
    /\ nRecv < MaxRecv
    /\ nRecv' = nRecv + 1

\* recvfrom returns d to the receive loop
Received(d) ==
    /\ rx_pc = "recv"
    /\ nRecv < MaxRecv
    /\ nRecv' = nRecv + 1

\* the message _handle_packet dispatches on
Decoded(d) == Decrypt(cipher, d)

\* recvfrom raises (the socket's 1 s timeout, or an OS error)
RecvSocketError ==
    /\ rx_pc = "recv"
    /\ rx_pc' = AfterSocketError
    /\ rxLog' = [rxLog EXCEPT !.status = "socket_error"]
    /\ UNCHANGED <<pureVars, netVars, now, peers, selfVars, rxCtx, nRecv, punch, appVars, kaVars>>

\* asyncio.sleep(0.1) is over
RecvSleepDone ==
    /\ rx_pc = "sleep"
    /\ rx_pc' = "recv"
    /\ UNCHANGED <<pureVars, netVars, now, peers, selfVars, rxCtx, rxLog, nRecv, punch,
                   appVars, kaVars>>

\* decrypt raises, json.loads raises, or no branch matches the type
RecvDropped(d) ==
    /\ Received(d)
    /\ Decoded(d).type \notin {"hello", "hello_ack", "keepalive", "data", "discover"}
    /\ rx_pc' = IF Decoded(d).type \in {"InvalidToken", "notjson"}
                THEN AfterHandlerException ELSE "recv"
    /\ rxLog' = Log(d, IF Decoded(d).type \in {"InvalidToken", "notjson"}
                       THEN "dropped" ELSE "done", 0, <<>>, <<>>, <<>>)
    /\ UNCHANGED <<pureVars, netVars, now, peers, selfVars, rxCtx, punch, appVars, kaVars>>

(***************************************************************************)
(* list(self.peers.items()) holds the Peer objects themselves.  An entry   *)
(* is the record as that object reads now, and whether the table still     *)
(* holds that object (shared): a handler that changes the record in place  *)
(* changes the entry too, one that stores a new Peer does not.             *)
(***************************************************************************)
Snapshot(t) == [i \in 1..Len(t) |-> [peer |-> t[i], shared |-> TRUE]]

Replaced(snap, k) ==
    [i \in 1..Len(snap) |->
        IF snap[i].peer.peer_id = k THEN [snap[i] EXCEPT !.shared = FALSE]
        ELSE snap[i]]

Touched(snap, k, addr, time) ==
    [i \in 1..Len(snap) |->
        IF snap[i].peer.peer_id = k /\ snap[i].shared
        THEN [snap[i] EXCEPT !.peer.last_seen = time,
                             !.peer.external_ip = addr.ip,
                             !.peer.external_port = addr.port]
        ELSE snap[i]]

\* _handle_hello, lines 198-209: the sender's record, from the datagram's source
\* an upsert that only ever adds
HelloAppend(t, msg, addr, time) ==
    Append(t, Peer(msg.node_id, msg.virtual_ip, addr, time))

HelloUpsert(t, msg, addr, time) ==
    DictSet(t, msg.node_id, Peer(msg.node_id, msg.virtual_ip, addr, time))

\* a hello handler that ignores the hello of another network
RecvHelloOfNetwork(d) ==
    /\ Received(d)
    /\ Decoded(d).type = "hello"
    /\ LET msg == Decoded(d)
       IN  IF msg.node_id = Missing \/ msg.virtual_ip = Missing
           THEN /\ rx_pc' = AfterHandlerException
                /\ rxLog' = Log(d, "raised", 0, <<>>, <<>>, <<>>)
                /\ UNCHANGED <<peers, rxCtx, kaSnap>>
           ELSE IF msg.network_id # network_id
           THEN /\ rx_pc' = "recv"
                /\ rxLog' = Log(d, "done", 0, <<>>, <<>>, <<>>)
                /\ UNCHANGED <<peers, rxCtx, kaSnap>>
           ELSE /\ peers' = HelloUpsert(peers, msg, d.src, now)
                /\ rx_pc' = "hello_send"
                /\ rxCtx' = [peer_id |-> msg.node_id, addr |-> d.src,
                             msg |-> HelloAck(node_id, virtual_ip, AsDicts(peers'))]
                /\ rxLog' = Log(d, "handling", 1, <<>>, <<>>, <<>>)
                /\ kaSnap' = Replaced(kaSnap, msg.node_id)
    /\ UNCHANGED <<pureVars, netVars, now, selfVars, punch, appVars, ka_pc, kaTimer, kaLog>>

\* _handle_hello up to its await: the upsert, the ack built from the table
RecvHello(d) ==
    /\ Received(d)
    /\ Decoded(d).type = "hello"
    /\ LET msg == Decoded(d)
       IN  IF msg.node_id = Missing \/ msg.virtual_ip = Missing
           THEN /\ rx_pc' = AfterHandlerException
                /\ rxLog' = Log(d, "raised", 0, <<>>, <<>>, <<>>)
                /\ UNCHANGED <<peers, rxCtx>>
           ELSE /\ peers' = HelloUpsert(peers, msg, d.src, now)
                /\ rx_pc' = "hello_send"
                /\ rxCtx' = [peer_id |-> msg.node_id, addr |-> d.src,
                             msg |-> HelloAck(node_id, virtual_ip, AsDicts(peers'))]
                /\ rxLog' = Log(d, "handling", 1, <<>>, <<>>, <<>>)
    /\ kaSnap' = IF Decoded(d).node_id = Missing \/ Decoded(d).virtual_ip = Missing
                 THEN kaSnap ELSE Replaced(kaSnap, Decoded(d).node_id)
    /\ UNCHANGED <<pureVars, netVars, now, selfVars, punch, appVars, ka_pc, kaTimer, kaLog>>

\* _handle_hello after its await: sendto returned (ok) or raised, then the
\* callback on self.peers[peer_id], which raises KeyError if the record is gone
HelloSendDone(ok, cbRaises) ==
    /\ rx_pc = "hello_send"
    /\ rxCtx' = NoCtx
    /\ IF ~ok
       THEN /\ rx_pc' = AfterHandlerException
            /\ rxLog' = [rxLog EXCEPT !.status = "raised"]
       ELSE IF rxCtx.peer_id \notin Keys(peers)
       THEN /\ rx_pc' = AfterHandlerException
            /\ rxLog' = [rxLog EXCEPT !.status = "raised",
                            !.sent = Append(@, Sent(rxCtx.msg, rxCtx.addr))]
       ELSE /\ rx_pc' = IF cbRaises THEN AfterHandlerException ELSE "recv"
            /\ rxLog' = [rxLog EXCEPT
                            !.status = IF cbRaises THEN "cb_raised" ELSE "done",
                            !.sent = Append(@, Sent(rxCtx.msg, rxCtx.addr)),
                            !.cb = Append(@, Fired("on_peer_connected",
                                                   DictGet(peers, rxCtx.peer_id)))]
    /\ UNCHANGED <<pureVars, netVars, now, peers, selfVars, nRecv, punch, appVars, kaVars>>

\* a hello_ack handler that connects to no peer of the list
GossipNone(self, list, t) == [spawned |-> <<>>, raised |-> FALSE]

\* a gossip loop that leaves out only the node itself, not the peers
\* already in the table
RECURSIVE GossipAll(_, _, _)
GossipAll(self, list, t) ==
    IF list = <<>>
    THEN [spawned |-> <<>>, raised |-> FALSE]
    ELSE LET e == Head(list)
         IN  IF e.peer_id = Missing
             THEN [spawned |-> <<>>, raised |-> TRUE]
             ELSE LET rest == GossipAll(self, Tail(list), t)
                      mine == IF e.peer_id # self THEN <<AddrOf(e)>> ELSE <<>>
                  IN  [spawned |-> mine \o rest.spawned, raised |-> rest.raised]

\* _handle_hello_ack, lines 240-246: the addresses to punch, in list order,
\* up to the entry (if any) whose lookup raises KeyError
RECURSIVE GossipScanOf(_, _, _)
GossipScanOf(self, list, t) ==
    IF list = <<>>
    THEN [spawned |-> <<>>, raised |-> FALSE]
    ELSE LET e == Head(list)
         IN  IF e.peer_id = Missing
             THEN [spawned |-> <<>>, raised |-> TRUE]
             ELSE LET rest == GossipScanOf(self, Tail(list), t)
                      mine == IF e.peer_id # self /\ e.peer_id \notin Keys(t)
                              THEN <<AddrOf(e)>> ELSE <<>>
                  IN  [spawned |-> mine \o rest.spawned, raised |-> rest.raised]

GossipScan(list, t) == GossipScanOf(node_id, list, t)

\* asyncio.create_task(self.connect_to_peer(ip, port))
\* to: the target; sent: the hellos sent so far; pc: send (a sendto, or the
\* sleep before the next one, is awaited), done, raised
Task(addr) == [to |-> addr, sent |-> 0, pc |-> "send"]

Tasks(addrs) == [i \in 1..Len(addrs) |-> Task(addrs[i])]

\* a hello_ack handler that stores nothing
HelloAckIgnore(t, msg, addr, time) == t

\* a hello_ack handler that believes what the message says of its sender's
\* address, when its peers list has an entry for the sender
HelloAckClaimed(t, msg, addr, time) ==
    LET Own(e) == e.peer_id = msg.node_id
        own == SelectSeq(msg.peers, Own)
    IN  DictSet(t, msg.node_id,
                Peer(msg.node_id, msg.virtual_ip,
                     IF own = <<>> THEN addr ELSE AddrOf(own[1]), time))

\* a hello_ack handler that also stores the peers its sender tells of
RECURSIVE StoreGossip(_, _, _)
StoreGossip(t, list, time) ==
    IF list = <<>> THEN t
    ELSE LET e == Head(list)
         IN  StoreGossip(IF e.peer_id = Missing THEN t
                         ELSE DictSet(t, e.peer_id,
                                      Peer(e.peer_id, e.virtual_ip, AddrOf(e), time)),
                         Tail(list), time)

HelloAckLearn(t, msg, addr, time) ==
    StoreGossip(DictSet(t, msg.node_id, Peer(msg.node_id, msg.virtual_ip, addr, time)),
                msg.peers, time)

\* _handle_hello_ack, lines 227-237
HelloAckUpsert(t, msg, addr, time) ==
    DictSet(t, msg.node_id, Peer(msg.node_id, msg.virtual_ip, addr, time))

\* _handle_hello_ack: it has no await
RecvHelloAck(d, cbRaises) ==
    /\ Received(d)
    /\ Decoded(d).type = "hello_ack"
    /\ LET msg == Decoded(d)
       IN  IF msg.node_id = Missing \/ msg.virtual_ip = Missing
           THEN /\ rx_pc' = AfterHandlerException
                /\ rxLog' = Log(d, "raised", 0, <<>>, <<>>, <<>>)
                /\ UNCHANGED <<peers, punch>>
           ELSE LET t == HelloAckUpsert(peers, msg, d.src, now)
                    scan == GossipScan(msg.peers, t)
                    fired == <<Fired("on_peer_connected", DictGet(t, msg.node_id))>>
                IN  /\ Len(punch) + Len(scan.spawned) <= MaxPunch
                    /\ peers' = t
                    /\ punch' = punch \o Tasks(scan.spawned)
                    /\ rx_pc' = IF scan.raised \/ cbRaises
                                THEN AfterHandlerException ELSE "recv"
                    /\ rxLog' = Log(d,
                                    IF scan.raised THEN "raised"
                                    ELSE IF cbRaises THEN "cb_raised" ELSE "done",
                                    1, <<>>,
                                    IF scan.raised THEN <<>> ELSE fired,
                                    scan.spawned)
    /\ kaSnap' = IF Decoded(d).node_id = Missing \/ Decoded(d).virtual_ip = Missing
                 THEN kaSnap ELSE Replaced(kaSnap, Decoded(d).node_id)
    /\ UNCHANGED <<pureVars, netVars, now, selfVars, rxCtx, appVars, ka_pc, kaTimer, kaLog>>

\* _handle_keepalive, lines 257-259: the record is changed in place
Touch(t, k, addr, time) ==
    [t EXCEPT ![IndexOf(t, k)] =
        [@ EXCEPT !.last_seen = time, !.external_ip = addr.ip,
                  !.external_port = addr.port]]

\* a keepalive handler that adopts whoever sends one
KeepaliveAdopt(t, msg, addr, time) ==
    DictSet(t, msg.node_id, Peer(msg.node_id, msg.virtual_ip, addr, time))

\* a keepalive handler that refreshes last_seen and keeps the old address
KeepaliveStamp(t, msg, addr, time) ==
    IF msg.node_id \in Keys(t)
    THEN [t EXCEPT ![IndexOf(t, msg.node_id)].last_seen = time]
    ELSE t

KeepaliveUpdate(t, msg, addr, time) ==
    IF msg.node_id \in Keys(t) THEN Touch(t, msg.node_id, addr, time) ELSE t

\* _handle_keepalive
RecvKeepalive(d) ==
    /\ Received(d)
    /\ Decoded(d).type = "keepalive"
    /\ LET msg == Decoded(d)
       IN  IF msg.node_id = Missing
           THEN /\ rx_pc' = AfterHandlerException
                /\ rxLog' = Log(d, "raised", 0, <<>>, <<>>, <<>>)
                /\ UNCHANGED peers
           ELSE /\ peers' = KeepaliveUpdate(peers, msg, d.src, now)
                /\ rx_pc' = "recv"
                /\ rxLog' = Log(d, "done",
                                IF msg.node_id \in Keys(peers) THEN 1 ELSE 0,
                                <<>>, <<>>, <<>>)
    /\ kaSnap' = IF Decoded(d).node_id = Missing
                 THEN kaSnap ELSE Touched(kaSnap, Decoded(d).node_id, d.src, now)
    /\ UNCHANGED <<pureVars, netVars, now, selfVars, rxCtx, punch, appVars, ka_pc, kaTimer, kaLog>>

\* a data handler that passes on only what claims to come from a peer in the
\* table
RecvDataOfPeers(d, cbRaises) ==
    /\ Received(d)
    /\ Decoded(d).type = "data"
    /\ LET msg == Decoded(d)
           known == \E i \in 1..Len(peers) : peers[i].virtual_ip = msg.from_ip
       IN  /\ rx_pc' = IF known /\ cbRaises THEN AfterHandlerException ELSE "recv"
           /\ rxLog' = Log(d, IF known /\ cbRaises THEN "cb_raised" ELSE "done", 0, <<>>,
                           IF known
                           THEN <<Fired("on_message",
                                        [from_ip |-> msg.from_ip, data |-> msg.data])>>
                           ELSE <<>>,
                           <<>>)
    /\ UNCHANGED <<pureVars, netVars, now, peers, selfVars, rxCtx, punch, appVars, kaVars>>

\* _handle_data
RecvData(d, cbRaises) ==
    /\ Received(d)
    /\ Decoded(d).type = "data"
    /\ LET msg == Decoded(d)
       IN  /\ rx_pc' = IF cbRaises THEN AfterHandlerException ELSE "recv"
           /\ rxLog' = Log(d, IF cbRaises THEN "cb_raised" ELSE "done", 0, <<>>,
                           <<Fired("on_message",
                                   [from_ip |-> msg.from_ip, data |-> msg.data])>>,
                           <<>>)
    /\ UNCHANGED <<pureVars, netVars, now, peers, selfVars, rxCtx, punch, appVars, kaVars>>

\* a discover handler that takes the asking node into the table
RecvDiscoverAdopt(d) ==
    /\ Received(d)
    /\ Decoded(d).type = "discover"
    /\ peers' = IF Decoded(d).node_id = Missing THEN peers
                ELSE DictSet(peers, Decoded(d).node_id,
                             Peer(Decoded(d).node_id, Decoded(d).virtual_ip, d.src, now))
    /\ rx_pc' = "disc_send"
    /\ rxCtx' = [peer_id |-> Missing, addr |-> d.src,
                 msg |-> DiscoverResponse(node_id, virtual_ip, AsDicts(peers'))]
    /\ rxLog' = Log(d, "handling", 0, <<>>, <<>>, <<>>)
    /\ UNCHANGED <<pureVars, netVars, now, selfVars, punch, appVars, kaVars>>

\* _handle_discover up to its await
RecvDiscover(d) ==
    /\ Received(d)
    /\ Decoded(d).type = "discover"
    /\ rx_pc' = "disc_send"
    /\ rxCtx' = [peer_id |-> Missing, addr |-> d.src,
                 msg |-> DiscoverResponse(node_id, virtual_ip, AsDicts(peers))]
    /\ rxLog' = Log(d, "handling", 0, <<>>, <<>>, <<>>)
    /\ UNCHANGED <<pureVars, netVars, now, peers, selfVars, punch, appVars, kaVars>>

\* _handle_discover after its await
DiscoverSendDone(ok) ==
    /\ rx_pc = "disc_send"
    /\ rxCtx' = NoCtx
    /\ rx_pc' = IF ok THEN "recv" ELSE AfterHandlerException
    /\ rxLog' = IF ok
                THEN [rxLog EXCEPT !.status = "done",
                         !.sent = Append(@, Sent(rxCtx.msg, rxCtx.addr))]
                ELSE [rxLog EXCEPT !.status = "raised"]
    /\ UNCHANGED <<pureVars, netVars, now, peers, selfVars, nRecv, punch, appVars, kaVars>>

(***************************************************************************)
(* connect_to_peer: five hellos, half a second apart.  A task whose send   *)
(* raises ends there; a task that has slept after its fifth hello is over. *)
(***************************************************************************)
\* the application calls connect_to_peer(ip, port): up to the first sendto
ConnectCall(addr) ==
    /\ app_pc = "idle"
    /\ Len(punch) < MaxPunch
    /\ punch' = Append(punch, Task(addr))
    /\ UNCHANGED <<pureVars, netVars, now, peers, selfVars, rxVars, appVars, kaVars>>

\* lines 322-324: a sendto of task i returned, or raised; after a hello that
\* was sent, the sleep, and the next sendto or the end
PunchStep(task, ok) ==
    IF ~ok THEN [task EXCEPT !.pc = "raised"]
    ELSE [task EXCEPT !.sent = @ + 1,
                      !.pc = IF task.sent + 1 < HOLE_PUNCH_COUNT
                             THEN "send" ELSE "done"]

PunchSend(i, ok) ==
    /\ i \in 1..Len(punch)
    /\ punch[i].pc = "send"
    /\ punch' = [punch EXCEPT ![i] = PunchStep(@, ok)]
    /\ UNCHANGED <<pureVars, netVars, now, peers, selfVars, rxVars, appVars, kaVars>>

(***************************************************************************)
(* The STUN client and start().                                            *)
(***************************************************************************)
\* _stun_request, lines 141-158: the address of the first XOR-MAPPED-ADDRESS
\* of whatever datagram recvfrom returned, from whomever, or None
StunParse(d) == IF d.body.type = "stun" THEN d.body.mapped ELSE NoAddr

\* a caller that stores whatever _stun_request returned
SetExternalAlways(external) ==
    /\ external_ip' = external.ip
    /\ external_port' = external.port

\* lines 111-113 and 283-285
SetExternal(external) ==
    IF external # NoAddr
    THEN /\ external_ip' = external.ip
         /\ external_port' = external.port
    ELSE UNCHANGED <<external_ip, external_port>>

\* start(), lines 121-123: the two loops are created; the application goes on
LoopsStarted ==
    /\ rx_pc' = "recv"
    /\ ka_pc' = "sleep"
    /\ kaTimer' = now + KEEPALIVE_PERIOD
    /\ app_pc' = "idle"

\* start() as a whole, the STUN server answering its request: nothing else
\* of the node runs before start() has created the loops
Start ==
    /\ ka_pc = "off"
    /\ SetExternal(StunParse(Datagram(STUN_SERVER, RawBytes,
                                      StunResponse("match", SelfAddr))))
    /\ LoopsStarted
    /\ UNCHANGED <<pureVars, netVars, now, peers, rxCtx, rxLog, nRecv, punch, appCtx, appLog,
                   nCalls, kaSnap, kaLog>>

(***************************************************************************)
(* start() step by step and _keepalive_loop.  ka_pc is where start(), and  *)
(* then the keepalive loop, stands: off, start_send and start_wait (the    *)
(* STUN request of start()), sleep, stun_send and stun_wait (the STUN      *)
(* request of a tick), ka_send (a keepalive's sendto), dead (an exception  *)
(* left start() or the loop).                                              *)
(***************************************************************************)
\* start() is called: up to the sendto of _stun_request
StartCall ==
    /\ ka_pc = "off"
    /\ ka_pc' = "start_send"
    /\ UNCHANGED <<pureVars, netVars, now, peers, selfVars, rxVars, punch, appVars, kaTimer, kaSnap,
                   kaLog>>

\* asyncio.sleep(10) is over: up to the sendto of _stun_request
KaWake ==
    /\ ka_pc = "sleep"
    /\ now >= kaTimer
    /\ ka_pc' = "stun_send"
    /\ UNCHANGED <<pureVars, netVars, now, peers, selfVars, rxVars, punch, appVars, kaTimer, kaSnap,
                   kaLog>>

\* line 133: the request's sendto returned, or raised (it is outside the try)
StunSendDone(ok) ==
    /\ ka_pc \in {"start_send", "stun_send"}
    /\ ka_pc' = IF ~ok THEN "dead"
                ELSE IF ka_pc = "start_send" THEN "start_wait" ELSE "stun_wait"
    /\ UNCHANGED <<pureVars, netVars, now, peers, selfVars, rxVars, punch, appVars, kaTimer, kaSnap,
                   kaLog>>

\* lines 294-302 from one entry of the list to the next await, to the end of
\* the list, or to the exception that ends the loop
RECURSIVE Reap(_, _, _, _)
Reap(snap, t, time, cbRaises) ==
    IF snap = <<>>
    THEN [pc |-> "sleep", snap |-> <<>>, peers |-> t, cb |-> <<>>]
    ELSE LET peer == Head(snap).peer
             cb == <<Fired("on_peer_disconnected", peer)>>
         IN  IF time - peer.last_seen > PEER_TIMEOUT
             THEN IF cbRaises \/ peer.peer_id \notin Keys(t)
                  THEN [pc |-> "dead", snap |-> <<>>, peers |-> t, cb |-> cb]
                  ELSE LET rest == Reap(Tail(snap), DictDel(t, peer.peer_id),
                                        time, cbRaises)
                       IN  [rest EXCEPT !.cb = cb \o @]
             ELSE \* line 302: the address is read before _send_to is awaited
                  [pc |-> "ka_send",
                   snap |-> <<[Head(snap) EXCEPT !.shared = FALSE]>> \o Tail(snap),
                   peers |-> t, cb |-> <<>>]

\* the loop's stretch that runs Reap on snap, and what the deletions do to a
\* dict iterator that is open on the table
KaReap(snap, log, cbRaises) ==
    LET r == Reap(snap, peers, now, cbRaises)
        gone == Keys(peers) \ Keys(r.peers)
    IN  /\ ka_pc' = r.pc
        /\ kaSnap' = r.snap
        /\ peers' = r.peers
        /\ kaLog' = [log EXCEPT !.cb = @ \o r.cb]
        /\ kaTimer' = IF r.pc = "sleep" THEN now + KEEPALIVE_PERIOD ELSE kaTimer
        /\ appCtx' = [appCtx EXCEPT !.di_pos = @ - Cardinality(
                         {i \in 1..appCtx.di_pos : peers[i].peer_id \in gone})]

\* the log of a turn that begins with _stun_request returning external
StunLog(external) ==
    [stun |-> IF external = NoAddr THEN "None" ELSE "addr",
     cb |-> <<>>, sent |-> <<>>]

\* _stun_request returns external (None: NoAddr); start() goes on to create
\* the loops, the keepalive loop to its list of the table
StunDone(external, cbRaises) ==
    /\ ka_pc \in {"start_wait", "stun_wait"}
    /\ SetExternal(external)
    /\ IF ka_pc = "start_wait"
       THEN /\ LoopsStarted
            /\ kaLog' = StunLog(external)
            /\ UNCHANGED <<peers, kaSnap, appCtx>>
       ELSE /\ KaReap(Snapshot(peers), StunLog(external), cbRaises)
            /\ UNCHANGED <<rx_pc, app_pc>>
    /\ UNCHANGED <<pureVars, netVars, now, rxCtx, rxLog, nRecv, punch, appLog, nCalls>>

\* lines 136-155: recvfrom hands the wait a datagram, whatever it is
StunRecv(d, cbRaises) == StunDone(StunParse(d), cbRaises)

\* lines 156-158: recvfrom raises (the socket's timeout), or wait_for does
StunTimeout(cbRaises) == StunDone(NoAddr, cbRaises)

\* line 302: a keepalive's sendto returned, or raised and ended the loop
KaSendDone(ok, cbRaises) ==
    /\ ka_pc = "ka_send"
    /\ IF ok
       THEN KaReap(Tail(kaSnap),
                   [kaLog EXCEPT !.sent = Append(@, AddrOf(Head(kaSnap).peer))],
                   cbRaises)
       ELSE /\ ka_pc' = "dead"
            /\ kaSnap' = <<>>
            /\ UNCHANGED <<peers, kaTimer, kaLog, appCtx>>
    /\ UNCHANGED <<pureVars, netVars, now, selfVars, rxVars, punch, app_pc, appLog, nCalls>>

(***************************************************************************)
(* The public API, called by the application one call at a time.           *)
(***************************************************************************)
Payloads == {"x"}

VirtualIps == {"v1", "v2"}

Called ==
    /\ app_pc = "idle"
    /\ nCalls < MaxCalls
    /\ nCalls' = nCalls + 1

\* send, lines 328-329: the records whose virtual_ip is v, in table order
Matches(t, v) == {i \in 1..Len(t) : t[i].virtual_ip = v}

First(S) == CHOOSE i \in S : \A j \in S : i <= j

\* send up to its await
CallSend(v, x) ==
    /\ Called
    /\ IF Matches(peers, v) = {}
       THEN /\ app_pc' = "idle"
            /\ appCtx' = NoIter
            /\ appLog' = [Call("send", v, peers) EXCEPT !.result = "False"]
       ELSE /\ app_pc' = "send_await"
            /\ appCtx' = [NoIter EXCEPT
                            !.addr = AddrOf(peers[First(Matches(peers, v))]),
                            !.key = peers[First(Matches(peers, v))].peer_id]
            /\ appLog' = Call("send", v, peers)
    /\ UNCHANGED <<pureVars, netVars, now, peers, selfVars, rxVars, punch, kaVars>>

\* send after its await: sendto returned (return True) or raised
SendDone(ok, x) ==
    /\ app_pc = "send_await"
    /\ app_pc' = "idle"
    /\ appCtx' = NoIter
    /\ appLog' = IF ok
                 THEN [appLog EXCEPT !.result = "True",
                          !.sent = Append(@, Sent(Data(virtual_ip, x), appCtx.addr)),
                          !.keys = Append(@, appCtx.key)]
                 ELSE [appLog EXCEPT !.result = "raised"]
    /\ UNCHANGED <<pureVars, netVars, now, peers, selfVars, rxVars, punch, nCalls, kaVars>>

\* iter(self.peers.values())
DictIter(t) ==
    [di_used |-> Len(t), di_pos |-> 0, len |-> Len(t), addr |-> NoAddr,
     key |-> Missing]

\* next() of that iterator on the dict as it is now: the next value, the end,
\* or RuntimeError (the dict changed size, or holds more than it did)
DictIterNext(it, t) ==
    IF it.di_used # Len(t) THEN "RuntimeError"
    ELSE IF it.di_pos >= Len(t) THEN "StopIteration"
    ELSE IF it.len = 0 THEN "RuntimeError"
    ELSE "value"

\* broadcast from one next() of its loop to its await, or to its end
BroadcastStep(it, log) ==
    LET step == DictIterNext(it, peers)
    IN  IF step = "value"
        THEN /\ app_pc' = "bcast_await"
             /\ appCtx' = [it EXCEPT !.di_pos = @ + 1, !.len = @ - 1,
                                     !.addr = AddrOf(peers[it.di_pos + 1]),
                                     !.key = peers[it.di_pos + 1].peer_id]
             /\ appLog' = log
        ELSE /\ app_pc' = "idle"
             /\ appCtx' = NoIter
             /\ appLog' = [log EXCEPT !.result = IF step = "StopIteration"
                                                 THEN "returned" ELSE step]

CallBroadcast(x) ==
    /\ Called
    /\ BroadcastStep(DictIter(peers), Call("broadcast", x, peers))
    /\ UNCHANGED <<pureVars, netVars, now, peers, selfVars, rxVars, punch, kaVars>>

\* broadcast after an await: sendto returned or raised
BroadcastSendDone(ok, x) ==
    /\ app_pc = "bcast_await"
    /\ IF ok
       THEN BroadcastStep(appCtx,
                [appLog EXCEPT
                    !.sent = Append(@, Sent(Data(virtual_ip, x), appCtx.addr)),
                    !.keys = Append(@, appCtx.key)])
       ELSE /\ app_pc' = "idle"
            /\ appCtx' = NoIter
            /\ appLog' = [appLog EXCEPT !.result = "raised"]
    /\ UNCHANGED <<pureVars, netVars, now, peers, selfVars, rxVars, punch, nCalls, kaVars>>

(***************************************************************************)
(* The node in the seconds after start(): the receive loop and its         *)
(* handlers, on whatever the socket hands them.  The keepalive loop is in  *)
(* its first sleep; the tasks the handlers create have not run yet.        *)
(***************************************************************************)
Receive(D) ==
    \/ RecvSocketError
    \/ RecvSleepDone
    \/ \E d \in D : RecvHello(d)
    \/ \E ok, cbRaises \in BOOLEAN : HelloSendDone(ok, cbRaises)
    \/ \E d \in D : RecvKeepalive(d)

Next ==
    \/ Start
    \/ Tick(EngineTime)
    \/ Receive(Datagrams)
    \/ \E d \in Datagrams : RecvDropped(d)
    \/ \E d \in Datagrams, cbRaises \in BOOLEAN : RecvHelloAck(d, cbRaises)
    \/ \E d \in Datagrams, cbRaises \in BOOLEAN : RecvData(d, cbRaises)
    \/ \E d \in Datagrams : RecvDiscover(d)
    \/ \E ok \in BOOLEAN : DiscoverSendDone(ok)

Spec == Init /\ [][Next]_vars

(***************************************************************************)
(* The same seconds with the application calling send and broadcast while  *)
(* peers say hello and send keepalives.                                    *)
(***************************************************************************)
ApiDatagrams ==
    {Datagram(s[3], cipher, Hello(s[1], s[2])) : s \in Senders}
    \cup {Datagram(Addr2, cipher, Keepalive("n1", "v1"))}

NextApi ==
    \/ Start
    \/ Tick(EngineTime)
    \/ Receive(ApiDatagrams)
    \/ \E v \in VirtualIps, x \in Payloads : CallSend(v, x)
    \/ \E ok \in BOOLEAN, x \in Payloads : SendDone(ok, x)
    \/ \E x \in Payloads : CallBroadcast(x)
    \/ \E ok \in BOOLEAN, x \in Payloads : BroadcastSendDone(ok, x)

SpecApi == Init /\ [][NextApi]_vars

(***************************************************************************)
(* The node over the minute and more that a record lives: start() and the  *)
(* keepalive loop step by step, beside the receive loop, with one peer     *)
(* and what else reaches the socket.                                       *)
(***************************************************************************)
KaDatagrams ==
    { Datagram(Addr1, cipher, Hello("n1", "v1")),
      Datagram(Addr1, cipher, Keepalive("n1", "v1")),
      Datagram(Addr2, RawBytes, Junk),
      Datagram(STUN_SERVER, RawBytes, StunResponse("match", SelfAddr)),
      Datagram(Addr2, RawBytes, StunResponse("other", Addr2)) }

NextKa ==
    \/ StartCall
    \/ Tick(MaxTime)
    \/ KaWake
    \/ \E ok \in BOOLEAN : StunSendDone(ok)
    \/ \E d \in KaDatagrams, cbRaises \in BOOLEAN : StunRecv(d, cbRaises)
    \/ \E cbRaises \in BOOLEAN : StunTimeout(cbRaises)
    \/ \E ok, cbRaises \in BOOLEAN : KaSendDone(ok, cbRaises)
    \/ Receive(KaDatagrams)
    \/ \E d \in KaDatagrams : RecvDropped(d)

SpecKa == Init /\ [][NextKa]_vars

(***************************************************************************)
(* The node while connect_to_peer runs: called by the application, or      *)
(* created by the hello_ack handler for a peer it learns of, beside the    *)
(* receive loop.                                                           *)
(***************************************************************************)
PunchDatagrams ==
    { Datagram(Addr1, cipher, Hello("n1", "v1")),
      Datagram(Addr1, cipher, HelloAck("n1", "v1", <<G("n2", "v2", Addr2)>>)),
      Datagram(Addr2, cipher, Keepalive("n1", "v1")) }

NextPunch ==
    \/ Start
    \/ Tick(EngineTime)
    \/ \E addr \in {Addr1, Addr2} : ConnectCall(addr)
    \/ \E i \in 1..MaxPunch, ok \in BOOLEAN : PunchSend(i, ok)
    \/ Receive(PunchDatagrams)
    \/ \E d \in PunchDatagrams, cbRaises \in BOOLEAN : RecvHelloAck(d, cbRaises)

SpecPunch == Init /\ [][NextPunch]_vars

(***************************************************************************)
(* A peer whose address changes: n1 says hello from Addr1, and what it     *)
(* sends later comes from Addr2, while the keepalive loop ticks.           *)
(***************************************************************************)
NatDatagrams ==
    { Datagram(Addr1, cipher, Hello("n1", "v1")),
      Datagram(Addr2, cipher, Hello("n1", "v1")),
      Datagram(Addr2, cipher, HelloAck("n1", "v1", <<>>)),
      Datagram(Addr2, cipher, Keepalive("n1", "v1")) }

NextNat ==
    \/ StartCall
    \/ Tick(NatTime)
    \/ KaWake
    \/ \E ok \in BOOLEAN : StunSendDone(ok)
    \/ \E cbRaises \in BOOLEAN : StunTimeout(cbRaises)
    \/ \E ok, cbRaises \in BOOLEAN : KaSendDone(ok, cbRaises)
    \/ Receive(NatDatagrams)
    \/ \E d \in NatDatagrams, cbRaises \in BOOLEAN : RecvHelloAck(d, cbRaises)

SpecNat == Init /\ [][NextNat]_vars

(***************************************************************************)
(* Everything that reaches the node without being a hello of the peer it   *)
(* is about: the application punches toward n2, n1 tells of n2 in its      *)
(* hello_ack, and n2 itself sends a keepalive, a data message and a        *)
(* discover before it has ever said hello.                                 *)
(***************************************************************************)
TableDatagrams ==
    { Datagram(Addr1, cipher, Hello("n1", "v1")),
      Datagram(Addr1, cipher, HelloAck("n1", "v1", <<G("n2", "v2", Addr2)>>)),
      Datagram(Addr2, cipher, Keepalive("n2", "v2")),
      Datagram(Addr2, cipher, Data("v2", "x")),
      Datagram(Addr2, cipher, Discover("n2", "v2")) }

NextTable ==
    \/ Start
    \/ Tick(EngineTime)
    \/ ConnectCall(Addr2)
    \/ \E i \in 1..MaxPunch, ok \in BOOLEAN : PunchSend(i, ok)
    \/ Receive(TableDatagrams)
    \/ \E d \in TableDatagrams, cbRaises \in BOOLEAN : RecvHelloAck(d, cbRaises)
    \/ \E d \in TableDatagrams, cbRaises \in BOOLEAN : RecvData(d, cbRaises)
    \/ \E d \in TableDatagrams : RecvDiscover(d)
    \/ \E ok \in BOOLEAN : DiscoverSendDone(ok)

SpecTable == Init /\ [][NextTable]_vars

(***************************************************************************)
(* A peer that goes quiet and comes back: n1 says hello when the node has  *)
(* started, and all it sends afterwards are the keepalives of its own      *)
(* keepalive loop; no sendto and no callback raises.  The clock runs, the  *)
(* keepalive loop gets its turns, and a keepalive that has arrived is      *)
(* received.                                                               *)
(***************************************************************************)
RejoinHello == Datagram(Addr1, cipher, Hello("n1", "v1"))

RejoinKeepalive == Datagram(Addr1, cipher, Keepalive("n1", "v1"))

KaTurn ==
    \/ KaWake
    \/ StunSendDone(TRUE)
    \/ StunTimeout(FALSE)
    \/ KaSendDone(TRUE, FALSE)

NextRejoin ==
    \/ StartCall
    \/ Tick(MaxTime)
    \/ KaTurn
    \/ RecvSocketError
    \/ RecvSleepDone
    \/ now = 0 /\ RecvHello(RejoinHello)
    \/ HelloSendDone(TRUE, FALSE)
    \/ RecvKeepalive(RejoinKeepalive)

RejoinFair ==
    /\ WF_vars(StartCall)
    /\ WF_vars(Tick(MaxTime))
    /\ WF_vars(KaTurn)
    /\ WF_vars(RecvKeepalive(RejoinKeepalive))

SpecRejoin == Init /\ [][NextRejoin]_vars /\ RejoinFair

(***************************************************************************)
(* The reaper beside the receive loop, with two peers.  The node has       *)
(* started and has handled the hello of n1 and then the hello of n2, all   *)
(* at time 0; nRecv counts the datagrams received from then on.  n1 goes   *)
(* on sending keepalives; n2 is silent and then says hello, or answers a   *)
(* hello, again.  No sendto and no callback raises.                        *)
(***************************************************************************)
InitReap ==
    /\ InitPure
    /\ InitNet
    /\ tables = [n \in NetNodes |-> <<>>]
    /\ now = 0
    /\ peers = <<Peer("n1", "v1", Addr1, 0), Peer("n2", "v2", Addr2, 0)>>
    /\ external_ip = SelfAddr.ip
    /\ external_port = SelfAddr.port
    /\ rx_pc = "recv"
    /\ rxCtx = NoCtx
    /\ rxLog = Log(NoDatagram, "none", 0, <<>>, <<>>, <<>>)
    /\ nRecv = 0
    /\ punch = <<>>
    /\ app_pc = "idle"
    /\ appCtx = NoIter
    /\ appLog = Call("none", Missing, <<>>)
    /\ nCalls = 0
    /\ ka_pc = "sleep"
    /\ kaTimer = KEEPALIVE_PERIOD
    /\ kaSnap = <<>>
    /\ kaLog = StunLog(SelfAddr)

ReapDatagrams ==
    { Datagram(Addr1, cipher, Keepalive("n1", "v1")),
      Datagram(Addr2, cipher, Hello("n2", "v2")),
      Datagram(Addr2, cipher, HelloAck("n2", "v2", <<>>)) }

NextReap ==
    \/ Tick(MaxTime)
    \/ KaTurn
    \/ \E d \in ReapDatagrams : RecvKeepalive(d)
    \/ \E d \in ReapDatagrams : RecvHello(d)
    \/ HelloSendDone(TRUE, FALSE)
    \/ \E d \in ReapDatagrams : RecvHelloAck(d, FALSE)

SpecReap == InitReap /\ [][NextReap]_vars

(***************************************************************************)
(* The constructor.  Text is a sequence of byte values.  hashlib's digests *)
(* are total functions of their input bytes: Mix stands for their          *)
(* compression, so that equal inputs give equal digests and different      *)
(* inputs may collide.                                                     *)
(***************************************************************************)
NetworkIds == {"net", "lan"}
Secrets == {network_secret, OtherSecret}
LocalPorts == {0, SelfAddr.port}
\* os.urandom(8)
Randoms == {[i \in 1..8 |-> 0], [i \in 1..8 |-> 255]}

\* str.encode() of the texts above
Utf8(text) ==
    CASE text = "net" -> <<110, 101, 116>>
      [] text = "lan" -> <<108, 97, 110>>
      [] text = "s" -> <<115>>
      [] text = "other" -> <<111, 116, 104, 101, 114>>

RECURSIVE Mix(_, _)
Mix(h, bytes) ==
    IF bytes = <<>> THEN h
    ELSE Mix((h * 33 + Head(bytes)) % 256, Tail(bytes))

Digest(seed, bytes, n) == [k \in 1..n |-> Mix((seed + 7 * k) % 256, bytes)]

\* hashlib.md5(b).digest()
Md5(bytes) == Digest(5, bytes, 16)

\* hashlib.sha256(b).digest()
Sha256(bytes) == Digest(2, bytes, 32)

\* bytes.hex() and hexdigest(): two hex digits per byte, as their characters
HexChar(d) == IF d < 10 THEN 48 + d ELSE 87 + d

Hex(bytes) ==
    [i \in 1..(2 * Len(bytes)) |->
        HexChar(IF i % 2 = 1 THEN bytes[(i + 1) \div 2] \div 16
                ELSE bytes[i \div 2] % 16)]

\* line 51
NodeId(secret, random) ==
    SubSeq(Hex(Sha256(Utf8(secret) \o Hex(random))), 1, 16)

\* network_id_hash, lines 87-89
NetworkIdHash(self) == Md5(Utf8(self.network_id))[1]

\* a virtual IP whose last octet is taken from the local port
VirtualIpFromPort(self) ==
    <<10, NetworkIdHash(self), Md5(self.node_id)[1], self.local_port % 256>>

\* _generate_virtual_ip, lines 81-85: the four numbers of "10.N.a.b"
GenerateVirtualIp(self) ==
    LET h == Md5(self.node_id)
    IN  <<10, NetworkIdHash(self), h[1], h[2]>>

\* __init__, lines 45-68
NewNode(net, secret, port, random) ==
    LET self == [network_id |-> net, network_secret |-> secret,
                 local_port |-> port, node_id |-> NodeId(secret, random)]
    IN  [network_id |-> net, network_secret |-> secret, local_port |-> port,
         node_id |-> self.node_id, cipher |-> CreateCipher(secret),
         virtual_ip |-> GenerateVirtualIp(self), peers |-> <<>>,
         external_ip |-> "None", external_port |-> 0]

Construct(k, net, secret, port, random) ==
    /\ built[k] = Unbuilt
    /\ built' = [built EXCEPT ![k] = NewNode(net, secret, port, random)]
    /\ UNCHANGED <<nodeVars, netVars, box, parse>>

\* start, lines 110-113, on the object of slot k
BuiltStart(k, external) ==
    /\ built[k] # Unbuilt
    /\ built[k].external_ip = "None"
    /\ external # NoAddr
    /\ built' = [built EXCEPT ![k].external_ip = external.ip,
                              ![k].external_port = external.port]
    /\ UNCHANGED <<nodeVars, netVars, box, parse>>

\* _handle_hello on the object of slot k: a hello of the object of slot j
BuiltHello(k, j, addr) ==
    /\ built[k] # Unbuilt
    /\ built[j] # Unbuilt
    /\ built[k].cipher = built[j].cipher
    /\ built' = [built EXCEPT ![k].peers =
                    HelloUpsert(@, Hello(built[j].node_id, built[j].virtual_ip),
                                addr, now)]
    /\ UNCHANGED <<nodeVars, netVars, box, parse>>

NextBuild ==
    \/ \E k \in Slots, net \in NetworkIds, secret \in Secrets,
          port \in LocalPorts, random \in Randoms :
            Construct(k, net, secret, port, random)
    \/ \E k \in Slots : BuiltStart(k, SelfAddr)
    \/ \E k, j \in Slots : BuiltHello(k, j, Addr1)

SpecBuild == Init /\ [][NextBuild]_vars

(***************************************************************************)
(* encrypt and decrypt on their own.  cipher.encrypt returns the Fernet    *)
(* bytes (version, timestamp, IV, AES-CBC blocks, HMAC tag) as URL-safe    *)
(* base64 text; cipher.decrypt decodes the text with urlsafe_b64decode,    *)
(* checks version and tag over the decoded bytes, and unpads.  The text is *)
(* modelled by the envelope it encodes, whether a bit of its encoding has  *)
(* been altered, and its last symbol before the padding, character by     *)
(* character: that symbol carries the last bits of the tag (tail) above    *)
(* bits that encode nothing.                                               *)
(***************************************************************************)
Plaintexts == {<<>>, <<120>>, [i \in 1..32 |-> 120]}

\* the last bits of the HMAC tag of a token: they vary with IV and timestamp
Tails == 0..3

RECURSIVE Pow2(_)
Pow2(n) == IF n = 0 THEN 1 ELSE 2 * Pow2(n - 1)

\* the length of the Fernet bytes of a plaintext: 57 bytes around the blocks
FernetLen(plaintext) == 57 + 16 * (Len(plaintext) \div 16 + 1)

\* urlsafe_b64encode: how many bits of the last symbol encode nothing
SpareBits(plaintext) ==
    CASE FernetLen(plaintext) % 3 = 0 -> 0
      [] FernetLen(plaintext) % 3 = 1 -> 4
      [] OTHER -> 2

\* the URL-safe alphabet; -1: the character is not in it
B64Index(ch) ==
    IF ch >= 65 /\ ch <= 90 THEN ch - 65
    ELSE IF ch >= 97 /\ ch <= 122 THEN ch - 71
    ELSE IF ch >= 48 /\ ch <= 57 THEN ch + 4
    ELSE IF ch = 45 THEN 62
    ELSE IF ch = 95 THEN 63
    ELSE 0 - 1

B64Char(i) == CHOOSE ch \in 0..127 : B64Index(ch) = i

\* encrypt, lines 91-93, with the tag's last bits that this call produced
FernetToken(c, plaintext, tail) ==
    [env |-> Encrypt(c, plaintext), intact |-> TRUE, tail |-> tail,
     width |-> SpareBits(plaintext),
     last |-> B64Char(tail * Pow2(SpareBits(plaintext)))]

\* decrypt, lines 95-97: urlsafe_b64decode drops a character outside the
\* alphabet (what is left is no base64) and ignores the bits that encode
\* nothing; the tag is checked over the decoded bytes
FernetDecrypt(c, token) ==
    IF \/ ~token.intact
       \/ B64Index(token.last) < 0
       \/ B64Index(token.last) \div Pow2(token.width) # token.tail
    THEN InvalidToken
    ELSE Decrypt(c, token.env)

\* one bit of a character changes
FlipBit(ch, b) ==
    IF (ch \div Pow2(b)) % 2 = 1 THEN ch - Pow2(b) ELSE ch + Pow2(b)

BoxEncrypt(secret, plaintext, tail) ==
    /\ box.stage = "none"
    /\ box' = [stage |-> "encrypted", secret |-> secret, plain |-> plaintext,
               token |-> FernetToken(CreateCipher(secret), plaintext, tail),
               altered |-> FALSE, key |-> Missing, out |-> Missing]
    /\ UNCHANGED <<nodeVars, netVars, built, parse>>

\* the token on its way: bit b of its last symbol changes
BoxAlterLast(b) ==
    /\ box.stage = "encrypted"
    /\ ~box.altered
    /\ box' = [box EXCEPT !.altered = TRUE, !.token.last = FlipBit(@, b)]
    /\ UNCHANGED <<nodeVars, netVars, built, parse>>

\* a bit of any other character changes: the decoded bytes are not those
\* the tag was computed over, or the text is no base64 any more
BoxAlterOther ==
    /\ box.stage = "encrypted"
    /\ ~box.altered
    /\ box' = [box EXCEPT !.altered = TRUE, !.token.intact = FALSE]
    /\ UNCHANGED <<nodeVars, netVars, built, parse>>

\* decrypt by a node constructed with secret
BoxDecrypt(secret) ==
    /\ box.stage = "encrypted"
    /\ box' = [box EXCEPT !.stage = "decrypted", !.key = secret,
                          !.out = FernetDecrypt(CreateCipher(secret), box.token)]
    /\ UNCHANGED <<nodeVars, netVars, built, parse>>

NextCrypt ==
    \/ \E secret \in Secrets, plaintext \in Plaintexts, tail \in Tails :
          BoxEncrypt(secret, plaintext, tail)
    \/ \E b \in 0..7 : BoxAlterLast(b)
    \/ BoxAlterOther
    \/ \E secret \in Secrets : BoxDecrypt(secret)

SpecCrypt == Init /\ [][NextCrypt]_vars

(***************************************************************************)
(* The parse of _stun_request on its own, lines 141-158.  It reads the      *)
(* bytes two or four at a time at offsets that are multiples of 4, so the   *)
(* bytes are modelled as their 4-byte words, each a pair of 16-bit numbers  *)
(* (as a header: type and length), and the count of bytes after the last    *)
(* whole word.  struct.unpack raises on a slice that is too short, and the  *)
(* bare except turns that into None.                                        *)
(***************************************************************************)
MAGIC_COOKIE_HI == 8466

MAGIC_COOKIE_LO == 42050

XOR_MAPPED_ADDRESS == 32

STUN_HEADER == 20

MaxAttrWords == 4

\* a ^ b on numbers of the given width
RECURSIVE Xor(_, _, _)
Xor(a, b, bits) ==
    IF bits = 0 THEN 0
    ELSE (((a % 2) + (b % 2)) % 2) + 2 * Xor(a \div 2, b \div 2, bits - 1)

Bytes(words, extra) == [words |-> words, extra |-> extra]

\* len(data)
ByteLen(data) == 4 * Len(data.words) + data.extra

\* the words after the header: the header of an XOR-MAPPED-ADDRESS of 8, of 4
\* and of 0 bytes, of a SOFTWARE attribute of 5 bytes (3 of padding), of an
\* empty attribute, and a word of an address (as a header: type 1, a length
\* beyond any datagram)
AttrWords == {<<32, 8>>, <<32, 4>>, <<32, 0>>, <<32802, 5>>, <<0, 0>>, <<1, 50000>>}

DeclaredLengths == {0, 4, 12, 20, 65535}

RECURSIVE WordSeqs(_)
WordSeqs(n) ==
    IF n = 0 THEN {<<>>}
    ELSE LET shorter == WordSeqs(n - 1)
         IN  shorter \cup {Append(w, a) : w \in {x \in shorter : Len(x) = n - 1},
                                          a \in AttrWords}

\* a Binding Response header: type and declared length, the magic cookie, a
\* transaction ID
StunHeader(len) ==
    <<<<257, len>>, <<MAGIC_COOKIE_HI, MAGIC_COOKIE_LO>>, <<7, 7>>, <<7, 7>>, <<7, 7>>>>

\* what recvfrom can return: a header and attributes, whole or cut off after
\* any word or in the middle of one, and datagrams shorter than a header
StunBytes ==
    {Bytes(StunHeader(len) \o w, extra) :
        len \in DeclaredLengths, w \in WordSeqs(MaxAttrWords), extra \in {0, 2}}
    \cup {Bytes(<<>>, 0), Bytes(<<>>, 2), Bytes(<<<<257, 12>>>>, 0),
          Bytes(<<<<257, 0>>, <<MAGIC_COOKIE_HI, MAGIC_COOKIE_LO>>>>, 2)}

\* data[offset:offset+4] holds four bytes
HasWord(data, offset) == offset \div 4 + 1 <= Len(data.words)

WordAt(data, offset) == data.words[offset \div 4 + 1]

\* len(attr_value), line 145: the slice ends where the bytes end
ValueLen(data, offset, attr_length) ==
    IF offset + 4 + attr_length <= ByteLen(data) THEN attr_length
    ELSE ByteLen(data) - offset - 4

\* lines 148-153: the address an XOR-MAPPED-ADDRESS at offset encodes (the ip
\* as its two halves)
XorAddress(data, offset) ==
    [ip |-> <<Xor(WordAt(data, offset + 8)[1], MAGIC_COOKIE_HI, 16),
              Xor(WordAt(data, offset + 8)[2], MAGIC_COOKIE_LO, 16)>>,
     port |-> Xor(WordAt(data, offset + 4)[2], MAGIC_COOKIE_HI, 16)]

\* an advance that forgets the attribute's own header
NextOffsetOfValue(offset, attr_length) ==
    offset + attr_length + ((4 - (attr_length % 4)) % 4)

\* line 155
NextOffset(offset, attr_length) ==
    offset + 4 + attr_length + ((4 - (attr_length % 4)) % 4)

\* return: result holds the address returned, or nothing for None
ParseDone(result) == [parse EXCEPT !.pc = "done", !.result = result]

\* lines 136-142: recvfrom returned data; offset and msg_length are set
StunBegin(data) ==
    /\ parse.pc = "none"
    /\ parse' = IF ByteLen(data) < 4
                THEN [pc |-> "done", data |-> data, msg_length |-> 0, offset |-> 0,
                      turns |-> 0, result |-> <<>>]
                ELSE [pc |-> "loop", data |-> data, msg_length |-> WordAt(data, 0)[2],
                      offset |-> STUN_HEADER, turns |-> 0, result |-> <<>>]
    /\ UNCHANGED <<nodeVars, netVars, built, box>>

\* lines 144-158: the loop's test and one turn of the loop, or what ends it
StunAttr ==
    /\ parse.pc = "loop"
    /\ parse' =
         IF ~(parse.offset < STUN_HEADER + parse.msg_length)
            \/ ~HasWord(parse.data, parse.offset)
         THEN ParseDone(<<>>)
         ELSE LET attr_type == WordAt(parse.data, parse.offset)[1]
                  attr_length == WordAt(parse.data, parse.offset)[2]
              IN  IF attr_type = XOR_MAPPED_ADDRESS
                  THEN IF ValueLen(parse.data, parse.offset, attr_length) < 8
                       THEN ParseDone(<<>>)
                       ELSE ParseDone(<<XorAddress(parse.data, parse.offset)>>)
                  ELSE [parse EXCEPT !.offset = NextOffset(@, attr_length),
                                     !.turns = IF @ < MaxAttrWords + 1 THEN @ + 1 ELSE @]
    /\ UNCHANGED <<nodeVars, netVars, built, box>>

NextStun ==
    \/ parse.pc = "none" /\ \E data \in StunBytes : StunBegin(data)
    \/ StunAttr

\* _stun_request runs its parse without an await: the loop gets its turns
SpecStun == Init /\ [][NextStun]_vars /\ WF_vars(StunAttr)

(***************************************************************************)
(* Several started nodes on a network that loses nothing: a datagram sent  *)
(* is in flight until its destination takes it from its socket, in any     *)
(* order; every sendto succeeds.  Each node runs the handlers above on its *)
(* own table.  A hello is handled in one step: between its upsert and its  *)
(* callback only the ack is sent, and no other coroutine here writes the   *)
(* table.  The clock stands still: all of this is over within seconds.     *)
(***************************************************************************)
InFlight(dst, d) == [dst |-> dst, dg |-> d]

\* _send_to of node src: the datagram as its destination will receive it
NetSend(f, src, addr, msg) ==
    f (+) SetToBag({InFlight(NodeAt(addr),
                             Datagram(Ident(src).addr, cipher, msg))})

\* a task, or the application, gets to its sendto
Clear == BagCardinality(flight) < MaxFlight

\* a task that create_task has made and that has not run yet: it sends its
\* first hello at the next turn of its event loop, before any sleep(0.5) ends
Fresh ==
    \E n \in NetNodes : \E i \in 1..Len(tasks[n]) :
        tasks[n][i].pc = "send" /\ tasks[n][i].sent = 0

\* the datagrams in flight for node n
Arriving(n) == {m \in BagToSet(flight) : m.dst = n}

\* the application of node n calls connect_to_peer on the address of node to
NetConnect(n, to) ==
    /\ <<n, to>> \notin calls
    /\ calls' = calls \cup {<<n, to>>}
    /\ tasks' = [tasks EXCEPT ![n] = Append(@, Task(Ident(to).addr))]
    /\ UNCHANGED <<pureVars, nodeVars, tables, flight, got, stolen, bc>>

\* connect_to_peer, lines 322-324: task i of node n sends a hello and sleeps
NetPunch(n, i) ==
    /\ i \in 1..Len(tasks[n])
    /\ tasks[n][i].pc = "send"
    /\ tasks[n][i].sent = 0 \/ (Clear /\ ~Fresh)
    /\ flight' = NetSend(flight, n, tasks[n][i].to, Hello(n, Ident(n).virtual_ip))
    /\ tasks' = [tasks EXCEPT ![n][i] = PunchStep(@, TRUE)]
    /\ UNCHANGED <<pureVars, nodeVars, tables, got, stolen, calls, bc>>

\* _receive_loop and _handle_packet of node n on a datagram in flight for it
NetHandle(n, m) ==
    /\ m \in Arriving(n)
    /\ LET d == m.dg
           msg == Decoded(d)
           rest == flight (-) SetToBag({m})
       IN  CASE msg.type = "hello" ->
                  LET t == HelloUpsert(tables[n], msg, d.src, now)
                  IN  /\ tables' = [tables EXCEPT ![n] = t]
                      /\ flight' = NetSend(rest, n, d.src,
                                           HelloAck(n, Ident(n).virtual_ip, AsDicts(t)))
                      /\ UNCHANGED <<tasks, got>>
             [] msg.type = "hello_ack" ->
                  LET t == HelloAckUpsert(tables[n], msg, d.src, now)
                      scan == GossipScanOf(n, msg.peers, t)
                  IN  /\ tables' = [tables EXCEPT ![n] = t]
                      /\ tasks' = [tasks EXCEPT ![n] = @ \o Tasks(scan.spawned)]
                      /\ flight' = rest
                      /\ UNCHANGED got
             [] msg.type = "keepalive" ->
                  /\ tables' = [tables EXCEPT
                                  ![n] = KeepaliveUpdate(@, msg, d.src, now)]
                  /\ flight' = rest
                  /\ UNCHANGED <<tasks, got>>
             [] msg.type = "data" ->
                  /\ got' = [got EXCEPT
                               ![n] = Append(@, Fired("on_message",
                                                      <<msg.from_ip, msg.data>>))]
                  /\ flight' = rest
                  /\ UNCHANGED <<tables, tasks>>
             [] OTHER ->
                  /\ flight' = rest
                  /\ UNCHANGED <<tables, tasks, got>>
    /\ UNCHANGED <<pureVars, nodeVars, stolen, calls, bc>>

\* _stun_request of node n, lines 137-139: the recvfrom of its wait, on the
\* socket the receive loop reads too, takes a datagram in flight for n; it
\* holds no XOR-MAPPED-ADDRESS and is gone
NetSteal(n, m) ==
    /\ m \in Arriving(n)
    /\ stolen[n] < MaxStolen
    /\ StunParse(m.dg) = NoAddr
    /\ stolen' = [stolen EXCEPT ![n] = @ + 1]
    /\ flight' = flight (-) SetToBag({m})
    /\ UNCHANGED <<pureVars, nodeVars, tables, tasks, got, calls, bc>>

\* every node of P holds a record of every other node of P, and of no other
Mutual(P) == \A n \in P : Keys(tables[n]) = P \ {n}

\* broadcast of the node node_id from one next() of its loop to its await
NetBroadcastStep(it, x) ==
    LET t == tables[node_id]
        step == DictIterNext(it, t)
    IN  IF step = "value"
        THEN bc' = [pc |-> "await",
                    it |-> [it EXCEPT !.di_pos = @ + 1, !.len = @ - 1,
                                      !.addr = AddrOf(t[it.di_pos + 1]),
                                      !.key = t[it.di_pos + 1].peer_id],
                    x |-> x]
        ELSE bc' = [pc |-> IF step = "StopIteration" THEN "returned" ELSE step,
                    it |-> NoIter, x |-> x]

\* the application of the node node_id calls broadcast(x), once, when the
\* nodes of P are connected to one another
NetBroadcastCall(P, x) ==
    /\ bc.pc = "none"
    /\ Mutual(P)
    /\ NetBroadcastStep(DictIter(tables[node_id]), x)
    /\ UNCHANGED <<pureVars, nodeVars, tables, flight, tasks, got, stolen, calls>>

\* line 347: the sendto returned
NetBroadcastSend ==
    /\ bc.pc = "await"
    /\ Clear
    /\ flight' = NetSend(flight, node_id, bc.it.addr, Data(virtual_ip, bc.x))
    /\ NetBroadcastStep(bc.it, bc.x)
    /\ UNCHANGED <<pureVars, nodeVars, tables, tasks, got, stolen, calls>>

\* the nodes of the connect_to_peer calls C
Parties(C) == {c[1] : c \in C} \cup {c[2] : c \in C}

\* the nodes connect: calls, tasks, receive loops, STUN waits
NetLink(C) ==
    \/ \E c \in C : NetConnect(c[1], c[2])
    \/ \E n \in NetNodes, i \in 1..MaxTasks : NetPunch(n, i)
    \/ \E n \in NetNodes : \E m \in Arriving(n) : NetHandle(n, m)
    \/ \E n \in NetNodes : \E m \in Arriving(n) : NetSteal(n, m)

NetNext(C) ==
    \/ NetLink(C)
    \/ \E x \in Payloads : NetBroadcastCall(Parties(C), x)
    \/ NetBroadcastSend

\* the receive loops and the tasks of an event loop get their turn
NetFair ==
    /\ \A n \in NetNodes : WF_vars(\E i \in 1..MaxTasks : NetPunch(n, i))
    /\ \A n \in NetNodes : WF_vars(\E m \in Arriving(n) : NetHandle(n, m))
    /\ WF_vars(NetBroadcastSend)

\* two nodes: n1 connects to the node node_id
PairCalls == {<<"n1", node_id>>}

NextPair == NetNext(PairCalls)

SpecPair == Init /\ [][NextPair]_vars /\ NetFair

\* three nodes: n1 and n2 connect to the node node_id, in either order
MeshCalls == {<<"n1", node_id>>, <<"n2", node_id>>}

NextMesh == NetLink(MeshCalls)

SpecMesh == Init /\ [][NextMesh]_vars /\ NetFair

\* the tables of three nodes connected to one another: every node holds a
\* record of each other node, in the order in which it met them
RECURSIVE Orders(_)
Orders(S) ==
    IF S = {} THEN {<<>>}
    ELSE UNION {{<<n>> \o o : o \in Orders(S \ {n})} : n \in S}

RecordOf(n) == Peer(n, Ident(n).virtual_ip, Ident(n).addr, 0)

MeshTables ==
    {t \in [NetNodes -> UNION {Orders(NetNodes \ {n}) : n \in NetNodes}] :
        \A n \in NetNodes : t[n] \in Orders(NetNodes \ {n})}

InitCast ==
    /\ InitNode
    /\ InitNet
    /\ \E t \in MeshTables :
          tables = [n \in NetNodes |-> [i \in 1..Len(t[n]) |-> RecordOf(t[n][i])]]

\* n1 calls connect_to_peer on n2 once more while node_id broadcasts
CastCalls == {<<"n1", "n2">>}

NextCast ==
    \/ NetLink(CastCalls)
    \/ \E x \in Payloads : NetBroadcastCall(NetNodes, x)
    \/ NetBroadcastSend

SpecCast == InitCast /\ [][NextCast]_vars /\ NetFair

(***************************************************************************)
(* Two connected nodes that both keep running on a network that loses      *)
(* nothing, seen from the node node_id: n1 says hello at time 0 and its     *)
(* keepalive loop, whose ticks fall together with the node's own, sends a   *)
(* keepalive every KEEPALIVE_PERIOD seconds.  Each arrives at the node's    *)
(* socket, where the receive loop's recvfrom and, during a STUN request,    *)
(* the recvfrom of _stun_request both wait; one of them gets it, before the *)
(* clock moves again.  No sendto and no callback raises.                    *)
(***************************************************************************)
\* the clock moves, and at its ticks n1's keepalive loop sends to the node
PeerTick ==
    /\ now + TimeStep <= MaxTime
    /\ ka_pc = "sleep"
    /\ now + TimeStep <= kaTimer
    /\ rx_pc = "recv"
    /\ flight = EmptyBag
    /\ now' = now + TimeStep
    /\ flight' = IF now' % KEEPALIVE_PERIOD = 0
                 THEN NetSend(EmptyBag, "n1", SelfAddr, Keepalive("n1", "v1"))
                 ELSE EmptyBag
    /\ UNCHANGED <<pureVars, tables, tasks, got, stolen, calls, bc, peers, selfVars,
                   rxVars, punch, appVars, kaVars>>

\* lines 164-168 and _handle_keepalive: the receive loop's recvfrom returns
\* the datagram that has arrived
LiveRecv(m) ==
    /\ m \in Arriving(node_id)
    /\ rx_pc = "recv"
    /\ Decoded(m.dg).type = "keepalive"
    /\ flight' = flight (-) SetToBag({m})
    /\ peers' = KeepaliveUpdate(peers, Decoded(m.dg), m.dg.src, now)
    /\ kaSnap' = Touched(kaSnap, Decoded(m.dg).node_id, m.dg.src, now)
    /\ rxLog' = Log(m.dg, "done",
                    IF Decoded(m.dg).node_id \in Keys(peers) THEN 1 ELSE 0,
                    <<>>, <<>>, <<>>)
    /\ UNCHANGED <<pureVars, tables, tasks, got, stolen, calls, bc, now, selfVars,
                   rx_pc, rxCtx, nRecv, punch, appVars, ka_pc, kaTimer, kaLog>>

\* lines 136-158 and 283-300: the recvfrom of the tick's _stun_request returns
\* it instead, and the tick goes on with what the parse made of it
LiveSteal(m) ==
    /\ m \in Arriving(node_id)
    /\ ka_pc = "stun_wait"
    /\ flight' = flight (-) SetToBag({m})
    /\ stolen' = [stolen EXCEPT ![node_id] = @ + 1]
    /\ SetExternal(StunParse(m.dg))
    /\ KaReap(Snapshot(peers), StunLog(StunParse(m.dg)), FALSE)
    /\ UNCHANGED <<pureVars, tables, tasks, got, calls, bc, now, rxVars, punch,
                   app_pc, appLog, nCalls>>

NextLive ==
    \/ StartCall
    \/ KaTurn
    \/ now = 0 /\ RecvHello(RejoinHello)
    \/ HelloSendDone(TRUE, FALSE)
    \/ PeerTick
    \/ \E m \in BagToSet(flight) : LiveRecv(m)
    \/ \E m \in BagToSet(flight) : LiveSteal(m)

SpecLive == Init /\ [][NextLive]_vars

(***************************************************************************)
(* The claims.                                                             *)
(***************************************************************************)
\* the message of the datagram the receive loop handled last, if it is a
\* token of the node's key
LastAuthentic == rxLog.dg.key = cipher

LastType == rxLog.dg.body.type

LastSender == rxLog.dg.body.node_id

\* the receive loop received a datagram in this step
Receiving == nRecv' = nRecv + 1

\* C1: a broadcast whose sends all succeed has, when it ends, emitted exactly
\* one data datagram for each record that was in the peer table when it was
\* called (in table order), whatever the receive loop did to the table
\* meanwhile.
C1_BroadcastOncePerRecord ==
    (appLog.op = "broadcast" /\ appLog.result \in {"returned", "RuntimeError"})
        => /\ Len(appLog.keys) = Len(appLog.start)
           /\ \A i \in 1..Len(appLog.start) :
                appLog.keys[i] = appLog.start[i].peer_id

\* C2: a send(v) that is over has returned True if some record of the table
\* (as it was at the call) has virtual_ip v, and False if none has; when it
\* returned True it has emitted exactly one data datagram, from_ip the node's
\* own virtual_ip, to the stored address of such a record; otherwise it has
\* emitted nothing; and no step of a send changes the table.
C2_SendState ==
    (appLog.op = "send" /\ app_pc = "idle") =>
        LET hits == {i \in 1..Len(appLog.start) :
                        appLog.start[i].virtual_ip = appLog.arg}
        IN  /\ appLog.result = (IF hits = {} THEN "False" ELSE "True")
            /\ appLog.result # "True" => appLog.sent = <<>>
            /\ appLog.result = "True" =>
                /\ Len(appLog.sent) = 1
                /\ appLog.sent[1].data.key = cipher
                /\ appLog.sent[1].data.body.type = "data"
                /\ appLog.sent[1].data.body.from_ip = virtual_ip
                /\ \E i \in hits :
                     /\ appLog.sent[1].to.ip = appLog.start[i].external_ip
                     /\ appLog.sent[1].to.port = appLog.start[i].external_port

\* C2, as a whole: what a finished send(v) returned and emitted, and that
\* none of its steps changes the peer table.
C2_SendLookup ==
    /\ []C2_SendState
    /\ [][(appLog' # appLog /\ appLog'.op = "send") => peers' = peers]_vars

\* C3: at every instant every record of the peer table was refreshed no more
\* than 60 s (PEER_TIMEOUT) ago.
C3_NoStaleRecord ==
    \A i \in 1..Len(peers) : now - peers[i].last_seen <= PEER_TIMEOUT

\* C4: the node's own node_id is never a key of its peer table.
C4_SelfNotInTable == node_id \notin Keys(peers)

\* C5: handling an authenticated keepalive whose node_id is not in the peer
\* table leaves the table as it was, fires no callback and sends nothing.
C5_UnknownKeepaliveDropped ==
    [][(/\ Receiving
        /\ rxLog'.dg.key = cipher
        /\ rxLog'.dg.body.type = "keepalive"
        /\ rxLog'.dg.body.node_id \notin Keys(peers))
       => /\ peers' = peers
          /\ rxLog'.cb = <<>>
          /\ rxLog'.sent = <<>>
          /\ rxLog'.spawned = <<>>
          /\ rx_pc' = "recv"]_vars

C5_Witness ==
    /\ LastAuthentic
    /\ LastType = "keepalive"
    /\ LastSender \in PeerIds
    /\ ~rxLog.known
    /\ rxLog.status = "done"
    /\ Len(peers) = 1

\* C6: a datagram whose handling ends in an exception of the handler (or in
\* a failed decrypt or decode) has not changed the peer table, has spawned no
\* hole-punch and has fired no callback.
C6_AllOrNothing ==
    rxLog.status \in {"dropped", "raised"}
        => /\ rxLog.updates = 0
           /\ rxLog.spawned = <<>>
           /\ rxLog.cb = <<>>

\* C7: the peer table never holds two records with the same node_id, and once
\* a hello or hello_ack of a node has been handled it holds exactly one record
\* with that node's node_id, however many were handled before.
C7_OneRecordPerNode ==
    /\ \A i, j \in 1..Len(peers) : peers[i].peer_id = peers[j].peer_id => i = j
    /\ (rxLog.updates = 1 /\ LastType \in {"hello", "hello_ack"})
        => Cardinality({i \in 1..Len(peers) : peers[i].peer_id = LastSender}) = 1

C7_Witness ==
    /\ LastType \in {"hello", "hello_ack"}
    /\ rxLog.updates = 1
    /\ rxLog.known
    /\ LastSender \in PeerIds
    /\ nRecv = MaxRecv
    /\ Len(peers) = 1

\* C8: a datagram that is no token of the node's key, and is not the Binding
\* Response that answers the outstanding STUN request, changes nothing when
\* the receive loop receives it (no record, not the node's own address, no
\* callback, no send), and when the wait for a STUN response receives it
\* neither changes the node's own address nor creates or changes a record.
C8_NoEffectWithoutKey ==
    [][\A d \in KaDatagrams :
         (/\ Decrypt(cipher, d).type = "InvalidToken"
          /\ ~(d.body.type = "stun" /\ d.body.from_ip = "match"
                                    /\ d.src = STUN_SERVER))
         => /\ (Receiving /\ rxLog'.dg = d)
                => /\ peers' = peers
                   /\ external_ip' = external_ip
                   /\ external_port' = external_port
                   /\ rxLog'.sent = <<>>
                   /\ rxLog'.cb = <<>>
            /\ (\E cbRaises \in BOOLEAN : StunRecv(d, cbRaises))
                => /\ external_ip' = external_ip
                   /\ external_port' = external_port
                   /\ \A i \in 1..Len(peers') :
                        \E j \in 1..Len(peers) : peers'[i] = peers[j]]_vars

\* C9: receiving a hello that is a token of another secret's key changes no
\* record, sends no hello_ack and fires no callback.
C9_WrongSecretHello ==
    [][(/\ Receiving
        /\ rxLog'.dg.key = CreateCipher(OtherSecret)
        /\ rxLog'.dg.body.type = "hello")
       => /\ peers' = peers
          /\ rxLog'.sent = <<>>
          /\ rxLog'.cb = <<>>
          /\ rxLog'.updates = 0
          /\ rx_pc' = "recv"]_vars

C9_Witness ==
    /\ rxLog.dg.key = CreateCipher(OtherSecret)
    /\ LastType = "hello"
    /\ LastSender \notin Keys(peers)
    /\ rxLog.status = "dropped"

\* C10: once started the receive loop never ends: after a turn that ended in
\* an exception (of recvfrom, of decrypt or decode, of a handler, of a
\* callback) it is back at recvfrom, or in the short sleep that precedes it.
C10_ReceiveLoopRuns ==
    /\ rx_pc \in {"off", "recv", "sleep", "hello_send", "disc_send"}
    /\ ka_pc # "off" => rx_pc # "off"
    /\ rxLog.status \in Failures => rx_pc \in {"recv", "sleep"}

C10_Witness ==
    /\ rxLog.status = "socket_error"
    /\ rxLog.dg.body.type = "hello"
    /\ LastSender \in Keys(peers)
    /\ rx_pc = "recv"
    /\ nRecv < MaxRecv

\* C11: a send that fails aborts no call of the API: a broadcast that is over
\* has not ended in the exception of a sendto, and a send(v) that is over and
\* found a record with virtual_ip v has returned True.
C11_SendFailureSwallowed ==
    app_pc = "idle" =>
        /\ appLog.op = "broadcast" => appLog.result # "raised"
        /\ (/\ appLog.op = "send"
            /\ \E i \in 1..Len(appLog.start) :
                 appLog.start[i].virtual_ip = appLog.arg)
           => appLog.result = "True"

\* C12: the node's own address changes only in the step that ends a wait for
\* a STUN response, and then to the address a STUN response carries, ip and
\* port together; a STUN request that returned None has left it as it was.
C12_ExternalOnlyFromStun ==
    [][/\ (external_ip' # external_ip \/ external_port' # external_port)
          => /\ ka_pc \in {"start_wait", "stun_wait"}
             /\ kaLog'.stun = "addr"
             /\ \E d \in KaDatagrams :
                  /\ d.body.type = "stun"
                  /\ external_ip' = d.body.mapped.ip
                  /\ external_port' = d.body.mapped.port
       /\ (ka_pc \in {"start_wait", "stun_wait"} /\ ka_pc' # ka_pc
           /\ kaLog'.stun = "None")
          => /\ external_ip' = external_ip
             /\ external_port' = external_port]_vars

C12_Witness ==
    /\ kaLog.stun = "None"
    /\ external_ip = SelfAddr.ip
    /\ external_port = SelfAddr.port
    /\ now >= KEEPALIVE_PERIOD

\* C13: a connect_to_peer that is over has sent exactly five hellos; none
\* of its steps creates or changes a record; the table changes only in a step
\* in which the receive loop handles a datagram.
C13_FiveHellos ==
    \A i \in 1..Len(punch) :
        /\ punch[i].sent <= HOLE_PUNCH_COUNT
        /\ punch[i].pc # "send" => punch[i].sent = HOLE_PUNCH_COUNT

C13_ConnectToPeer ==
    /\ []C13_FiveHellos
    /\ [][(punch' # punch /\ nRecv' = nRecv) => peers' = peers]_vars
    /\ [][peers' # peers => Receiving]_vars

\* C14: two started nodes, the node node_id (A) and n1 (B), on a network that
\* loses nothing: once B has called connect_to_peer on A's address, a state
\* is reached where A's table holds exactly one record, with B's node_id and
\* virtual_ip, and B's holds exactly one, with A's node_id and virtual_ip.
PairConnected ==
    /\ Len(tables[node_id]) = 1
    /\ tables[node_id][1].peer_id = "n1"
    /\ tables[node_id][1].virtual_ip = "v1"
    /\ Len(tables["n1"]) = 1
    /\ tables["n1"][1].peer_id = node_id
    /\ tables["n1"][1].virtual_ip = virtual_ip

C14_PairConnects == (<<"n1", node_id>> \in calls) ~> PairConnected

C14_Witness ==
    /\ PairConnected
    /\ stolen[node_id] = MaxStolen
    /\ stolen["n1"] = MaxStolen
    /\ \E i \in 1..Len(tasks["n1"]) : tasks["n1"][i].pc = "done"
    /\ flight = EmptyBag

\* n1 and n2 hold a record of one another
Introduced ==
    /\ "n2" \in Keys(tables["n1"])
    /\ "n1" \in Keys(tables["n2"])

\* C15: on a network that loses no datagram, once n1 and n2 have each called
\* connect_to_peer on the address of the node node_id, in either order, the
\* system reaches a state where the table of n1 holds n2 and the table of n2
\* holds n1, through the peer lists of the hello_acks of node_id.
C15_GossipIntroduces == (calls = MeshCalls) ~> Introduced

\* n1 and n2 know one another, neither called connect_to_peer on the other,
\* one of them runs a task that a hello_ack list started, and every STUN
\* wait took a datagram off its socket
C15_Witness ==
    /\ Introduced
    /\ calls = MeshCalls
    /\ \E n \in PeerIds : \E i \in 1..Len(tasks[n]) :
          tasks[n][i].to # SelfAddr /\ tasks[n][i].pc = "done"
    /\ \A n \in NetNodes : stolen[n] = MaxStolen
    /\ flight = EmptyBag

\* the keepalive loop is at, or within, the tick of this instant
TickDue ==
    \/ ka_pc \in {"stun_send", "stun_wait", "ka_send"}
    \/ ka_pc = "sleep" /\ kaTimer <= now

\* C16: a record that no datagram refreshes leaves the table, with
\* on_peer_disconnected fired on it, no earlier than 60 s and no later than
\* 70 s after its last refresh, whatever the STUN requests of the ticks in
\* between brought: a record is not removed before its age is 60 s, its
\* removal comes with the callback, and a record that reaches the age of 70 s
\* is in the table only while the tick of that instant is about to remove it.
C16_EvictionWindow ==
    /\ [](\A i \in 1..Len(peers) :
            now - peers[i].last_seen >= PEER_TIMEOUT + KEEPALIVE_PERIOD => TickDue)
    /\ [][\A i \in 1..Len(peers) :
            peers[i].peer_id \notin Keys(peers') =>
                /\ now - peers[i].last_seen >= PEER_TIMEOUT
                /\ \E j \in 1..Len(kaLog'.cb) :
                      /\ kaLog'.cb[j].name = "on_peer_disconnected"
                      /\ kaLog'.cb[j].arg = peers[i]]_vars

\* the broadcast of node_id returned and none of its datagrams is on its way
BroadcastOver ==
    /\ bc.pc = "returned"
    /\ \A m \in BagToSet(flight) : Decoded(m.dg).type # "data"

\* C17: with the three nodes connected to one another and a network that
\* loses no datagram, one broadcast(x) of node_id invokes
\* on_message(virtual_ip of node_id, x) exactly once on n1 and exactly once
\* on n2.
C17_BroadcastOnceEach ==
    BroadcastOver =>
        \A n \in PeerIds :
            got[n] = <<Fired("on_message", <<virtual_ip, bc.x>>)>>

\* the keepalive loop reads, in this step, the address of its next keepalive
\* from a record that no hello or hello_ack has replaced since the tick's
\* list was made
AddressRead ==
    /\ ka_pc' = "ka_send"
    /\ \/ ka_pc = "stun_wait"
       \/ ka_pc = "ka_send" /\ Len(kaSnap) > 1 /\ kaSnap[2].shared

\* C18: when the last datagram handled from a connected peer is a hello, a
\* hello_ack or a keepalive, the tick that then reads the peer's address
\* sends its keepalive to the source address of that datagram, the new
\* address, and not to the one the record held before.
C18_KeepaliveFollowsAddress ==
    [][(/\ AddressRead
        /\ LastAuthentic
        /\ LastType \in {"hello", "hello_ack", "keepalive"}
        /\ LastSender = Head(kaSnap').peer.peer_id
        /\ rxLog.status # "raised")
       => AddrOf(Head(kaSnap').peer) = rxLog.dg.src]_vars

\* the peer said hello from Addr1, its last datagram was a keepalive from
\* Addr2, and the tick after it has sent the peer's keepalive to Addr2
C18_Witness ==
    /\ LastAuthentic
    /\ LastType = "keepalive"
    /\ rxLog.dg.src = Addr2
    /\ ka_pc = "sleep"
    /\ kaLog.sent = <<Addr2>>
    /\ Len(peers) = 1
    /\ AddrOf(peers[1]) = Addr2

\* C19: two objects constructed with equal network_id and equal node_id
\* have equal virtual_ip; two objects with the same network_id share the
\* first two octets, 10 and N; and nothing that happens to an object after
\* its construction changes its virtual_ip.
C19_VirtualIpPure ==
    /\ [](\A j, k \in Slots :
            (built[j] # Unbuilt /\ built[k] # Unbuilt
             /\ built[j].network_id = built[k].network_id)
            => /\ built[j].virtual_ip[1] = 10
               /\ built[j].virtual_ip[1] = built[k].virtual_ip[1]
               /\ built[j].virtual_ip[2] = built[k].virtual_ip[2]
               /\ built[j].node_id = built[k].node_id
                  => built[j].virtual_ip = built[k].virtual_ip)
    /\ [][\A k \in Slots :
            built[k] # Unbuilt => built'[k].virtual_ip = built[k].virtual_ip]_vars

\* two objects of one network with one node_id and different local ports,
\* both started, each having handled the other's hello
C19_Witness ==
    /\ \A k \in Slots : built[k] # Unbuilt /\ built[k].external_ip # "None"
                          /\ Len(built[k].peers) = 1
    /\ built[1].network_id = built[2].network_id
    /\ built[1].node_id = built[2].node_id
    /\ built[1].local_port # built[2].local_port

\* C20: what was encrypted under a secret decrypts under it to the
\* plaintext, the empty one included; a ciphertext with any one bit altered
\* fails to decrypt, and so does any ciphertext under the key of another
\* secret.
C20_RoundTrip ==
    box.stage = "decrypted" =>
        IF box.altered \/ box.key # box.secret
        THEN box.out = InvalidToken
        ELSE box.out = box.plain

\* the last tick removed the record of n1, and a keepalive of n1 has been
\* handled since, while the table held no record of n1
EvictedAndPinged ==
    /\ \E j \in 1..Len(kaLog.cb) :
          /\ kaLog.cb[j].name = "on_peer_disconnected"
          /\ kaLog.cb[j].arg.peer_id = "n1"
    /\ LastAuthentic
    /\ LastType = "keepalive"
    /\ LastSender = "n1"
    /\ ~rxLog.known

\* C21: when the node has removed the record of n1 by timeout and n1, which
\* still holds the node's record, goes on sending keepalives, the record of
\* n1 is eventually in the table again, with no connect_to_peer call.
C21_AutoReconnect == EvictedAndPinged ~> ("n1" \in Keys(peers))

\* C22: the reaper removes a record, and fires on_peer_disconnected for a
\* node, only when the record that the table holds for that node at that
\* moment is older than 60 s: a hello or hello_ack of the peer handled while
\* the tick is still sending to other peers keeps its record in the table.
C22_ReaperSeesCurrentRecord ==
    [][/\ \A i \in 1..Len(peers) :
            peers[i].peer_id \notin Keys(peers') =>
                now - peers[i].last_seen > PEER_TIMEOUT
       /\ \A j \in 1..Len(kaLog'.cb) :
            (j > Len(kaLog.cb) \/ kaLog'.cb[j] # kaLog.cb[j]) =>
                /\ kaLog'.cb[j].arg.peer_id \in Keys(peers)
                /\ now - DictGet(peers, kaLog'.cb[j].arg.peer_id).last_seen
                      > PEER_TIMEOUT]_vars

\* C23: every datagram that reaches a node's socket and authenticates goes
\* to its handler; none is taken by the recvfrom of a wait for a STUN
\* response, at start or in a keepalive tick.
C23_NoneTakenByStunWait == \A n \in NetNodes : stolen[n] = 0

\* the step in which a keepalive tick is over: the loop sleeps again, or an
\* exception has left it
TickEnds ==
    /\ ka_pc \in {"stun_wait", "ka_send"}
    /\ ka_pc' \notin {"stun_wait", "ka_send"}

\* C24: when a keepalive tick is over, every record it found older than 60 s
\* is out of the table, with on_peer_disconnected fired exactly once on it
\* and no keepalive sent to it; every other record is in the table and was
\* sent exactly one keepalive; and no record older than 60 s is left.
C24_TickServesEveryRecord ==
    [][TickEnds =>
        /\ \A i \in 1..Len(peers') :
              /\ now - peers'[i].last_seen <= PEER_TIMEOUT
              /\ Cardinality({j \in 1..Len(kaLog'.sent) :
                                kaLog'.sent[j] = AddrOf(peers'[i])}) = 1
        /\ \A j \in 1..Len(kaLog'.cb) :
              /\ kaLog'.cb[j].name = "on_peer_disconnected"
              /\ kaLog'.cb[j].arg.peer_id \notin Keys(peers')
              /\ \A k \in 1..Len(kaLog'.sent) :
                    kaLog'.sent[k] # AddrOf(kaLog'.cb[j].arg)
              /\ \A k \in 1..Len(kaLog'.cb) :
                    kaLog'.cb[k].arg.peer_id = kaLog'.cb[j].arg.peer_id => k = j]_vars

\* C25: the handling of a hello or hello_ack fires on_peer_connected only when
\* the table held no record of the sender before the datagram was handled; a
\* repeated hello or hello_ack of a peer already in the table fires none.
C25_ConnectedOnlyForNewPeer ==
    (/\ LastAuthentic
     /\ LastType \in {"hello", "hello_ack"}
     /\ rxLog.known)
    => \A j \in 1..Len(rxLog.cb) : rxLog.cb[j].name # "on_peer_connected"

\* C26: every hole-punch the handling of a hello_ack spawns goes to the
\* advertised address of an entry of its peers list that names neither the
\* node itself nor a key of the peer table (as it is once the sender has been
\* upserted); and when the handler has run to its end, the hole-punches
\* spawned are, in list order, exactly those entries, one for each.
C26_GossipSpawnsExactlyUnknown ==
    (LastAuthentic /\ LastType = "hello_ack" /\ rxLog.updates = 1)
    => LET list == rxLog.dg.body.peers
           Unknown(e) == e.peer_id # node_id /\ e.peer_id \notin Keys(peers)
           due == SelectSeq(list, Unknown)
       IN  /\ \A j \in 1..Len(rxLog.spawned) :
                  \E i \in 1..Len(list) :
                      /\ Unknown(list[i])
                      /\ rxLog.spawned[j] = [ip |-> list[i].external_ip,
                                             port |-> list[i].external_port]
           /\ rxLog.status \in {"done", "cb_raised"}
                => rxLog.spawned = [i \in 1..Len(due) |->
                                       [ip |-> due[i].external_ip,
                                        port |-> due[i].external_port]]

\* a hello_ack of n1 that tells of the node itself, of n1 and of n2 has been
\* handled to its end: one hole-punch, toward n2
C26_Witness ==
    /\ LastAuthentic /\ LastType = "hello_ack" /\ LastSender = "n1"
    /\ rxLog.status = "done"
    /\ Len(rxLog.dg.body.peers) = 3
    /\ rxLog.spawned = <<Addr2>>

\* C27: once an authenticated discover_response has been received, a
\* hole-punch has been spawned to the advertised address of each entry of its
\* peers list that names neither the node itself nor a peer in the table.
C27_DiscoverResponseGossips ==
    (LastAuthentic /\ LastType = "discover_response")
    => \A i \in 1..Len(rxLog.dg.body.peers) :
            LET e == rxLog.dg.body.peers[i]
            IN  (e.peer_id # node_id /\ e.peer_id \notin Keys(peers))
                => \E j \in 1..Len(rxLog.spawned) :
                       rxLog.spawned[j] = [ip |-> e.external_ip, port |-> e.external_port]

\* C28: a key n enters the peer table only in the step that receives an
\* authenticated hello or hello_ack whose own node_id is n; no other step (a
\* gossiped entry, connect_to_peer and its hellos, a keepalive, a data message,
\* a discover) adds a key.
C28_RecordOnlyFromOwnHello ==
    [][ \A n \in Keys(peers') \ Keys(peers) :
            /\ Receiving
            /\ rxLog'.dg.key = cipher
            /\ rxLog'.dg.body.type \in {"hello", "hello_ack"}
            /\ rxLog'.dg.body.node_id = n ]_vars

\* n1 is in the table by its own hello or hello_ack; n2, told of by n1, punched
\* toward by the application and heard in a keepalive, is not
C28_Witness ==
    /\ "n1" \in Keys(peers)
    /\ "n2" \notin Keys(peers)
    /\ \E i \in 1..Len(punch) : punch[i].to = Addr2 /\ punch[i].sent > 0
    /\ LastAuthentic /\ LastType = "keepalive" /\ LastSender = "n2"

\* C29: the step that receives an authenticated hello, hello_ack or keepalive
\* of a peer that is in the table (a hello or hello_ack with the virtual_ip
\* the handler reads) leaves the peer's record with the source address of that
\* datagram as its external_ip and external_port, whatever the record held
\* and whatever the message says.
C29_AddressFromSource ==
    [][ (/\ Receiving
         /\ rxLog'.dg.key = cipher
         /\ rxLog'.dg.body.type \in {"hello", "hello_ack", "keepalive"}
         /\ rxLog'.dg.body.node_id \in Keys(peers)
         /\ rxLog'.dg.body.type = "keepalive" \/ rxLog'.dg.body.virtual_ip # Missing)
        => /\ rxLog'.dg.body.node_id \in Keys(peers')
           /\ LET rec == DictGet(peers', rxLog'.dg.body.node_id)
              IN  /\ rec.external_ip = rxLog'.dg.src.ip
                  /\ rec.external_port = rxLog'.dg.src.port ]_vars

\* n1, in the table, sent a hello_ack from Addr2 whose peers list says n1 is
\* at Addr1: the record says Addr2
C29_Witness ==
    /\ LastAuthentic /\ LastType = "hello_ack" /\ LastSender = "n1"
    /\ rxLog.known
    /\ rxLog.dg.src = Addr2
    /\ \E i \in 1..Len(rxLog.dg.body.peers) :
           /\ rxLog.dg.body.peers[i].peer_id = "n1"
           /\ rxLog.dg.body.peers[i].external_ip = Addr1.ip
    /\ "n1" \in Keys(peers)
    /\ DictGet(peers, "n1").external_ip = Addr2.ip
    /\ DictGet(peers, "n1").external_port = Addr2.port

\* C30: the step that receives an authenticated datagram of a peer that is in
\* the table, whatever its type (the peer is the one the datagram's node_id
\* names or, for a data message, the one whose virtual_ip is its from_ip),
\* leaves that peer's record with last_seen at the time of the receipt and the
\* datagram's source as its address.
C30_EveryDatagramRefreshes ==
    [][ (/\ Receiving
         /\ rxLog'.dg.key = cipher
         /\ rxLog'.dg.body.type \in {"hello", "hello_ack"}
                => rxLog'.dg.body.virtual_ip # Missing)
        => \A i \in 1..Len(peers) :
               (\/ peers[i].peer_id = rxLog'.dg.body.node_id
                \/ /\ rxLog'.dg.body.type = "data"
                   /\ peers[i].virtual_ip = rxLog'.dg.body.from_ip)
               => \E j \in 1..Len(peers') :
                      /\ peers'[j].peer_id = peers[i].peer_id
                      /\ peers'[j].last_seen = now
                      /\ peers'[j].external_ip = rxLog'.dg.src.ip
                      /\ peers'[j].external_port = rxLog'.dg.src.port ]_vars

\* C31: the handling of an authenticated hello sends at most one datagram
\* and, when its sendto has returned, exactly one: a hello_ack addressed to
\* the hello's source address, carrying the node's own node_id and virtual_ip
\* and, as peers, the peer table as it is with the hello's sender upserted.
C31_HelloAckCarriesTable ==
    (LastAuthentic /\ LastType = "hello" /\ rxLog.updates = 1)
    => /\ Len(rxLog.sent) <= 1
       /\ rxLog.status \in {"done", "cb_raised"} => Len(rxLog.sent) = 1
       /\ \A j \in 1..Len(rxLog.sent) :
              LET ack == Decrypt(cipher, rxLog.sent[j].data)
              IN  /\ rxLog.sent[j].to = rxLog.dg.src
                  /\ ack.type = "hello_ack"
                  /\ ack.node_id = node_id
                  /\ ack.virtual_ip = virtual_ip
                  /\ LastSender \in {ack.peers[i].peer_id : i \in 1..Len(ack.peers)}
                  /\ ack.peers = peers

\* n1 was in the table and n2 said hello: the hello_ack sent to n2 lists both
C31_Witness ==
    /\ LastAuthentic /\ LastType = "hello" /\ LastSender = "n2"
    /\ rxLog.status = "done"
    /\ Len(rxLog.sent) = 1
    /\ rxLog.sent[1].to = Addr2
    /\ Len(Decrypt(cipher, rxLog.sent[1].data).peers) = 2
    /\ Keys(peers) = {"n1", "n2"}

\* C32: while n1 and the node hold each other's record, both keep running
\* and every keepalive n1 sends arrives, the node's keepalive loop never fires
\* on_peer_disconnected for n1, whichever of the node's two recvfrom gets each
\* keepalive.
C32_ConnectedStayConnected ==
    \A j \in 1..Len(kaLog.cb) :
        ~(kaLog.cb[j].name = "on_peer_disconnected"
          /\ kaLog.cb[j].arg.peer_id = "n1")

\* C33: whatever the on_peer_disconnected callback does, raising included,
\* the stretch of the keepalive loop that has fired it for a record has
\* removed that record from the peer table, and the loop goes on: it has not
\* ended, so the rest of the tick and the later ticks run.
C33_DisconnectCallbackIsolated ==
    [][ \A j \in 1..Len(kaLog'.cb) :
            (/\ j > Len(kaLog.cb) \/ kaLog'.cb[j] # kaLog.cb[j]
             /\ kaLog'.cb[j].name = "on_peer_disconnected")
            => /\ kaLog'.cb[j].arg.peer_id \notin Keys(peers')
               /\ ka_pc' # "dead" ]_vars

\* C34: the receive loop takes a datagram from the socket only when the
\* handling of the one before is over (its table update, its reply's sendto
\* and its callback), and as long as a handling is under way the table
\* update, the reply and the callbacks logged are those of that datagram: two
\* datagrams take effect in the order in which they were received.
C34_OneDatagramAtATime ==
    [][ /\ Receiving => /\ rx_pc = "recv"
                        /\ rxCtx = NoCtx
                        /\ rxLog.status # "handling"
        /\ rx_pc \in {"hello_send", "disc_send"}
             => /\ rxLog.status = "handling"
                /\ rxLog'.dg = rxLog.dg ]_vars

\* n1's hello from Addr1 was handled to its end, then its keepalive from
\* Addr2: the record holds what the second one left
C34_Witness ==
    /\ nRecv = 2
    /\ rx_pc = "recv"
    /\ LastAuthentic /\ LastType = "keepalive" /\ LastSender = "n1"
    /\ rxLog.known
    /\ rxLog.dg.src = Addr2
    /\ now = EngineTime
    /\ Len(peers) = 1
    /\ peers[1].external_ip = Addr2.ip
    /\ peers[1].last_seen = EngineTime

\* C35: the address the node holds as its own is one it was given by a
\* Binding Response that carries the transaction ID of the request it answers
\* (or none yet): what a STUN wait receives with another transaction ID, or
\* what is no Binding Response, yields no address.
C35_AddressOnlyFromMatchingResponse ==
    \/ external_ip = NoAddr.ip /\ external_port = NoAddr.port
    \/ \E d \in KaDatagrams :
           /\ d.body.type = "stun"
           /\ d.body.from_ip = "match"
           /\ external_ip = d.body.mapped.ip
           /\ external_port = d.body.mapped.port

\* C36: the step that receives an authenticated data message invokes
\* on_message once, with the message's from_ip and data, and is the whole
\* handling: it sends nothing, spawns nothing and leaves the peer table as it
\* was, whether or not from_ip is the virtual_ip of a record.
C36_DataOnlyCallsBack ==
    [][ (Receiving /\ rxLog'.dg.key = cipher /\ rxLog'.dg.body.type = "data")
        => /\ rxLog'.cb = <<[name |-> "on_message",
                              arg |-> [from_ip |-> rxLog'.dg.body.from_ip,
                                       data |-> rxLog'.dg.body.data]]>>
           /\ rxLog'.sent = <<>>
           /\ rxLog'.spawned = <<>>
           /\ rxLog'.updates = 0
           /\ peers' = peers
           /\ punch' = punch
           /\ rx_pc' = "recv" ]_vars

\* a data message that says it is from v1 was passed on although the table
\* is empty
C36_Witness ==
    /\ LastAuthentic /\ LastType = "data"
    /\ rxLog.dg.body.from_ip = "v1"
    /\ rxLog.status = "done"
    /\ Len(rxLog.cb) = 1
    /\ rxLog.cb[1].arg.data = "x"
    /\ peers = <<>>

\* C37: the handling of an authenticated discover leaves the peer table as
\* it was, fires no callback and spawns nothing; it sends at most one datagram
\* and, when its sendto has returned, exactly one: a discover_response to the
\* discover's source address with the node's node_id and virtual_ip and, as
\* peers, the peer table.
C37_DiscoverAnswered ==
    /\ [](LastAuthentic /\ LastType = "discover"
           => /\ rxLog.cb = <<>>
              /\ rxLog.spawned = <<>>
              /\ rxLog.updates = 0
              /\ Len(rxLog.sent) <= 1
              /\ rxLog.status = "done" => Len(rxLog.sent) = 1
              /\ \A j \in 1..Len(rxLog.sent) :
                     LET resp == Decrypt(cipher, rxLog.sent[j].data)
                     IN  /\ rxLog.sent[j].to = rxLog.dg.src
                         /\ resp.type = "discover_response"
                         /\ resp.node_id = node_id
                         /\ resp.virtual_ip = virtual_ip
                         /\ resp.peers = peers)
    /\ [][(rx_pc = "disc_send" \/ rx_pc' = "disc_send") => peers' = peers]_vars

\* n2, of whom the table holds nothing, asked; the answer, sent to n2's
\* address, lists n1, and the table still holds n1 only
C37_Witness ==
    /\ LastAuthentic /\ LastType = "discover" /\ LastSender = "n2"
    /\ rxLog.status = "done"
    /\ Len(rxLog.sent) = 1
    /\ rxLog.sent[1].to = Addr2
    /\ Keys(peers) = {"n1"}
    /\ Decrypt(cipher, rxLog.sent[1].data).peers = peers

\* C38: an authenticated hello whose network_id is not the node's own is
\* handled like any other: the step that receives it stores its sender's
\* record, with the datagram's source as address, and the node answers its
\* source with a hello_ack.
C38_HelloOfAnotherNetwork ==
    /\ [][ (/\ Receiving
             /\ rxLog'.dg.key = cipher
             /\ rxLog'.dg.body.type = "hello"
             /\ rxLog'.dg.body.network_id # network_id
             /\ rxLog'.dg.body.node_id # Missing
             /\ rxLog'.dg.body.virtual_ip # Missing)
            => /\ rxLog'.dg.body.node_id \in Keys(peers')
               /\ DictGet(peers', rxLog'.dg.body.node_id).external_ip = rxLog'.dg.src.ip
               /\ rx_pc' = "hello_send"
               /\ rxCtx'.addr = rxLog'.dg.src
               /\ rxCtx'.msg.type = "hello_ack" ]_vars
    /\ []((/\ LastAuthentic
            /\ LastType = "hello"
            /\ rxLog.dg.body.network_id # network_id
            /\ rxLog.status = "done")
           => /\ Len(rxLog.sent) = 1
              /\ rxLog.sent[1].to = rxLog.dg.src
              /\ Decrypt(cipher, rxLog.sent[1].data).type = "hello_ack")

\* n2 of the network "lan", which has the same secret, said hello: it is in the
\* table and has its hello_ack
C38_Witness ==
    /\ LastAuthentic /\ LastType = "hello" /\ LastSender = "n2"
    /\ rxLog.dg.body.network_id = "lan"
    /\ rxLog.status = "done"
    /\ "n2" \in Keys(peers)
    /\ Len(rxLog.sent) = 1
    /\ Len(rxLog.cb) = 1

\* C39: the parse of whatever bytes the STUN wait received ends: every turn
\* of the attribute loop moves the offset on by at least 4 bytes, there are no
\* more turns than the bytes have words, and the parse ends, at the declared
\* length, at the first XOR-MAPPED-ADDRESS or at a slice too short to unpack,
\* with one address or with none.
C39_ParseTerminates ==
    /\ [](parse.pc = "loop" => <>(parse.pc = "done"))
    /\ [][parse.pc = "loop" /\ parse'.pc = "loop"
           => /\ parse'.offset >= parse.offset + 4
              /\ parse.offset + 4 <= ByteLen(parse.data)
              /\ parse.offset < STUN_HEADER + parse.msg_length]_vars
    /\ [](parse.pc = "done"
           => \/ parse.result = <<>>
              \/ /\ Len(parse.result) = 1
                 /\ parse.result[1].port \in 0..65535
                 /\ parse.offset + 12 <= ByteLen(parse.data)
                 /\ parse.offset < STUN_HEADER + parse.msg_length
                 /\ parse.data.words[parse.offset \div 4 + 1][1] = XOR_MAPPED_ADDRESS)

\* an empty attribute was passed over, and the address of the
\* XOR-MAPPED-ADDRESS after it, the last attribute within the declared length,
\* was returned
C39_Witness ==
    /\ parse.pc = "done"
    /\ parse.turns = 1
    /\ parse.offset = STUN_HEADER + 4
    /\ parse.msg_length = 20
    /\ Len(parse.result) = 1
    /\ parse.result[1].port = 57922

\* C40: in every state every record of the peer table has connected = true
\* and no two records have the same peer_id, the key they are stored under;
\* and the step that stores a record for a hello or hello_ack stores it with
\* the datagram's node_id, the key, as its peer_id.
C40_RecordsKeyedAndConnected ==
    /\ [](\A i \in 1..Len(peers) :
             /\ peers[i].connected = TRUE
             /\ \A j \in 1..Len(peers) : peers[j].peer_id = peers[i].peer_id => j = i)
    /\ [][ (Receiving /\ rxLog'.updates = 1)
            => \E i \in 1..Len(peers') :
                   /\ peers'[i].peer_id = rxLog'.dg.body.node_id
                   /\ peers'[i].connected = TRUE
                   /\ peers'[i].last_seen = now ]_vars

\* two records, stored by a hello and a hello_ack, one of them refreshed by
\* a keepalive afterwards
C40_Witness ==
    /\ Len(peers) = 2
    /\ nRecv = 3
    /\ LastAuthentic /\ LastType = "keepalive" /\ rxLog.known
    /\ \A i \in 1..Len(peers) : peers[i].connected = TRUE

====
